---- MODULE Spec2Model ----
(***************************************************************************)
(* Model of visitoolkit_connector/connector.py: the request/response       *)
(* correlation engine of DMSClient / _MessageHandler.                      *)
(*                                                                         *)
(* Threads: the callers (each runs one public operation at a time), the    *)
(* websocket thread (callbacks _cb_on_open, _cb_on_message -> handle(),    *)
(* _cb_on_close).  Shared state: _pending_response_dict, the               *)
(* _Response_container objects, _subscriptionES_objs_dict, ready_to_send.  *)
(* Every step of a thread between two accesses of shared state is one      *)
(* action; a "with lock:" block is one action.                             *)
(***************************************************************************)
EXTENDS Integers, Sequences, FiniteSets, TLC

\* ---------------------------------------------------------------- bounds
\* Spec: public operations started, inbound frames, reply records per frame
MaxOps == 2
MaxFrames == 2
MaxRecs == 2
\* SpecGet: the same three for the callers of dp_get
GetMaxOps == 2
GetMaxFrames == 2
GetMaxRecs == 2
\* SpecSub: the same three, counted from the first subscription on
SubMaxOps == 3
SubMaxFrames == 2
SubMaxRecs == 1
\* SpecEv: operations, frames, event records per frame, handlers per subscription
EvMaxOps == 2
EvMaxFrames == 2
EvMaxEvents == 2
EvMaxHandlers == 2
\* SpecOrd: frames, event records per frame, handlers per subscription
OrdMaxFrames == 3
OrdMaxEvents == 2
OrdMaxHandlers == 2
\* SpecIso: operations, frames, event records per frame, handlers per subscription
IsoMaxOps == 3
IsoMaxFrames == 4
IsoMaxEvents == 1
IsoMaxHandlers == 1
\* SpecLife: operations, frames
LifeMaxOps == 2
LifeMaxFrames == 2
\* SpecScope: operations, frames
ScopeMaxOps == 2
ScopeMaxFrames == 2
\* SpecGroups: operations, frames, records per frame
GrpMaxOps == 2
GrpMaxFrames == 2
GrpMaxRecs == 2
\* SpecWarn: the queue-size mark (EVENTQUEUE_WARNSIZE scaled down), frames
\* received, events per frame
WarnMark == 1
WarnMaxFrames == 3
WarnMaxEvents == 3
\* SpecLock: containers created, tags used as keys
LockMaxOps == 2
LockMaxKeys == 1
\* SpecBlocks: operations started, frames received, reply records per frame
BlkMaxOps == 2
BlkMaxFrames == 2
BlkMaxRecs == 2
\* SpecEnc: the largest integers passed as event and as showExtInfos
EncMaxEvent == 33
EncMaxInfo == 129

Callers == {"c1", "c2"}

\* the dispatcher thread, on which the handlers of a subscription run
DispThread == "d"
Threads == Callers \cup {DispThread}

\* uuid.uuid4() values in the order prepare_tag() mints them; two mints never
\* collide ("nearly unique" is modelled as unique)
TagNames == <<"t1", "t2", "t3", "t4", "t5", "t6">>

\* a reply record without a 'tag' key
NoTag == "-"
\* the local variable curr_tag of handle() before its first assignment
Unbound == "unbound"

\* the verbs in the order handle() walks them
VerbOrder ==
    <<"get", "set", "rename", "delete", "subscribe", "unsubscribe",
      "changelogGetGroups", "changelogRead">>

\* public operation -> verb of the command it sends
OpVerb ==
    [dp_get |-> "get", dp_set |-> "set", dp_ren |-> "rename", dp_del |-> "delete",
     changelog_GetGroups |-> "changelogGetGroups", changelog_Read |-> "changelogRead",
     get_dp_subscription |-> "subscribe", update |-> "subscribe",
     unsubscribe |-> "unsubscribe"]

\* operations whose command constructor calls prepare_tag() without a tag
FreshOps ==
    {"dp_get", "dp_set", "dp_ren", "dp_del", "changelog_GetGroups",
     "changelog_Read", "get_dp_subscription"}

\* what the caller passes as keyword options:
\*   ok       legal options (subscribe: including event)
\*   noevent  legal options, subscribe without event
\*   bad      an unknown key or a value the constructor rejects
\*   pathtag  update(path=..) or update(tag=..)
Kwargs == {"ok", "noevent", "bad", "pathtag"}

VARIABLES
    pending,     \* _pending_response_dict: tag -> container id
    cont,        \* the _Response_container objects ever created, by id
    registry,    \* _subscriptionES_objs_dict: tag -> SubscriptionES object; of the
                 \*   object the model keeps one history field, by: the tag
                 \*   reserved by the subscribe command whose reply created it
    subs,        \* the SubscriptionES objects handed to callers (by tag)
    call,        \* per caller: position and locals of its public operation
    nOps,        \* operations started
    rx,          \* handle(): the frame in work and the position in it
    curr,        \* _curr_response: msg_tag, resp_list
    nFrames,     \* frames received
    pureLog,     \* history: per frame, <<tag, k>> if it is the answer to one
                 \*          command (k records of one tag in one block)
    wire,        \* commands handed to the transport: <<verb, tag>>
    conn,        \* transport: "connecting", "open", "closed"
    ready,       \* ready_to_send
    lst,         \* per SubscriptionES object (by tag): its handlers, in the order
                 \*   they were added
    evq,         \* _subAE_queue: (subES, event_obj) pairs
    disp,        \* _subES_disp_thread: the dispatcher thread and its position
    fired,       \* history: the handler invocations, in order
    ws,          \* _ws as the client drives it, and the caller's with-block:
                 \*   keep = _ws.keep_running, closes = calls of _ws.close(),
                 \*   scope = "out", "in", "left", ctx = what __enter__ returned
    enc,         \* the command a public operation is building from its options:
                 \*   the option given, the field the constructor made of it,
                 \*   the exception it raised, whether the command was sent
    lk           \* _pending_response_lock (pend) and _subscriptionES_objs_lock
                 \*   (reg): the thread that holds each, and per thread its
                 \*   place in the "with <lock>:" block it is at

vars ==
    <<pending, cont, registry, subs, call, nOps, rx, curr, nFrames, pureLog,
      wire, conn, ready, lst, evq, disp, fired, ws, enc, lk>>

\* the state of the subscription events
evvars == <<lst, evq, disp, fired>>

\* ---------------------------------------------------------------- helpers
\* the DMSClient object
Facade == "client"

\* WebSocketApp(..): keep_running until told otherwise, close() not called
WsNew == [keep |-> TRUE, closes |-> 0, scope |-> "out", ctx |-> "none"]

Idle == [pc |-> "idle", op |-> "none", tag |-> NoTag, ev |-> 0, res |-> <<>>,
         err |-> "none", mine |-> 0, got |-> 0]

RxIdle == [frame |-> <<>>, hasmap |-> FALSE, tagmap |-> <<>>, evs |-> <<>>, b |-> 0,
           i |-> 0, phase |-> "idle", curr_tag |-> Unbound]

\* _Response_container(): isAvailable unset, response_list empty.
\* tag, fresh, taken, leaked are history fields: the key it was created under,
\* whether prepare_tag() minted that key, how many takes returned this
\* container's list, whether a take waiting on it timed out.
NewContainer(t, minted) ==
    [avail |-> FALSE, list |-> <<>>, tag |-> t, fresh |-> minted, taken |-> 0,
     leaked |-> FALSE]


\* number of tags prepare_tag() has minted so far
NumMinted == Cardinality({k \in 1..Len(cont) : cont[k].fresh})

DictSet(d, key, val) == [t \in DOMAIN d \cup {key} |-> IF t = key THEN val ELSE d[t]]
DictDel(d, key) == [t \in DOMAIN d \ {key} |-> d[t]]

SetCall(c, r) == [call EXCEPT ![c] = r]
Raise(c, e) == SetCall(c, [call[c] EXCEPT !.pc = "raised", !.err = e])

\* ------------------------------------------------------- the locks
\* The threads that use the two tables: the callers, and the websocket
\* thread, on which handle() runs.
WsThread == "ws"
LkThreads == Callers \cup {WsThread}

\* The "with <lock>:" blocks of _MessageHandler, by the method they are in:
\*   prepare_tag       _pending_response_dict[curr_tag] = _Response_container()
\*   read              isAvailable = _pending_response_dict[tag].isAvailable
\*   pop               curr_container = _pending_response_dict.pop(tag)
\*   store             handle(): .response_list = resp_list; .isAvailable.set()
\*   add_subscription  _subscriptionES_objs_dict[tag] = subAE
\*   del_subscription  del(_subscriptionES_objs_dict[tag])
\*   lookup            handle(): subES = _subscriptionES_objs_dict[event_obj.tag]
CallerSites == {"prepare_tag", "read", "pop", "add_subscription", "del_subscription"}
WsSites == {"store", "lookup"}

\* a plausible slip: handle() stores the list without taking the lock
SiteLockStoreBare(site) ==
    IF site \in {"prepare_tag", "read", "pop"} THEN "pend"
    ELSE IF site = "store" THEN "none"
    ELSE "reg"

\* the lock each block takes
SiteLock(site) ==
    IF site \in {"prepare_tag", "read", "pop", "store"} THEN "pend" ELSE "reg"

\* the table each block works on
SiteTable(site) ==
    IF site \in {"prepare_tag", "read", "pop", "store"} THEN "pend" ELSE "reg"

LkOut == [pc |-> "out", site |-> "none", lock |-> "none", key |-> NoTag]
LkInit == [pend |-> "free", reg |-> "free", th |-> [t \in LkThreads |-> LkOut]]

\* ------------------------------------------------------- prepare_tag
\* prepare_tag(curr_tag): mint a tag unless one is given, then, under the lock,
\* _pending_response_dict[curr_tag] = _Response_container() - whatever the
\* dictionary held under that key before.
PrepareTagDict(t) == DictSet(pending, t, Len(cont) + 1)

prepare_tag(c, op, t, minted, next) ==
    /\ pending' = PrepareTagDict(t)
    /\ cont' = Append(cont, NewContainer(t, minted))
    /\ call' = SetCall(c, [next EXCEPT !.op = op, !.tag = t, !.mine = Len(cont) + 1])

\* ------------------------------------------------ the encoder
\* <cmd>.as_dict(): the command record as it goes on the wire.  The commands
\* write their tag into the record; _CmdChangelogGetGroups.as_dict() is
\* {'changelogGetGroups': []}, without a tag.
CmdAsDict(verb, t) ==
    IF verb = "changelogGetGroups" THEN [verb |-> verb, tag |-> NoTag]
    ELSE [verb |-> verb, tag |-> t]

\* _Request.as_dict(), the envelope's 'tag' for a request of one command: the
\* helper map {changelogGetGroups: [tags of these commands, in order]} when
\* the request holds such a command, else no 'tag' key (the empty map here)
RequestTag(verb, t) ==
    IF verb = "changelogGetGroups" THEN [v \in {verb} |-> <<t>>]
    ELSE [v \in {} |-> <<>>]

\* ------------------------------------------------ option values
\* The value a caller passes for an option: an integer, a string that is not
\* a number, a list of strings, or nothing (the option is not given).
IntVal(n) == [kind |-> "int", n |-> n, names |-> <<>>]
StrVal(str) == [kind |-> "str", n |-> 0, names |-> <<str>>]
ListVal(l) == [kind |-> "list", n |-> 0, names |-> l]
NoVal == [kind |-> "absent", n |-> 0, names |-> <<>>]

\* ON_ALL, INFO_ALL
ON_ALL == 31
INFO_ALL == 127

\* "code_int & val_int" for a flag val_int, a power of two, and code_int >= 0
Flag(code_int, val_int) == (code_int \div val_int) % 2 = 1

\* the (flag, token) list of eventcode_as_str, as the source has it: the
\* last pair is (ON_DELETE, DMSEvent.CODE_RENAME)
EventFlags ==
    << <<1, "onChange">>, <<2, "onSet">>, <<4, "onCreate">>, <<8, "onRename">>,
       <<16, "onRename">> >>

\* the (flag, name) list of showExtInfos_as_strlist
InfoFlags ==
    << <<1, "state">>, <<2, "accType">>, <<4, "name">>, <<8, "template">>,
       <<16, "unit">>, <<32, "comment">>, <<64, "changelogGroup">> >>

\* the second components of the pairs whose flag is set in code_int
Names(table, code_int) ==
    LET sel == SelectSeq(table, LAMBDA p : Flag(code_int, p[1]))
    IN [k \in 1..Len(sel) |-> sel[k][2]]

\* ','.join(strings_list): the tokens with a comma between neighbours
Join(l) == [k \in 1..(IF l = <<>> THEN 0 ELSE 2 * Len(l) - 1) |->
              IF k % 2 = 1 THEN l[(k + 1) \div 2] ELSE ","]

\* _CmdSub.eventcode_as_str(code_int)
eventcode_as_str(code_int) ==
    IF code_int = ON_ALL THEN Join(<<"*">>) ELSE Join(Names(EventFlags, code_int))

\* _CmdGet.showExtInfos_as_strlist(showExtInfos_int)
showExtInfos_as_strlist(showExtInfos_int) ==
    IF showExtInfos_int = INFO_ALL THEN Names(InfoFlags, INFO_ALL)
    ELSE Names(InfoFlags, showExtInfos_int)

\* _CmdGet.__init__, key 'showExtInfos': int(value), the assert on the range,
\* showExtInfos_as_strlist.  int() of a list raises TypeError, which "except
\* ValueError" lets through; int() of a string that is no number raises
\* ValueError, and then self.showExtInfos = [].extend(value), which is None.
GetShowExtInfos(val) ==
    IF val.kind = "int"
    THEN IF val.n > 0 /\ val.n <= INFO_ALL
         THEN [err |-> "none", field |-> showExtInfos_as_strlist(val.n)]
         ELSE [err |-> "AssertionError", field |-> <<>>]
    ELSE IF val.kind = "list" THEN [err |-> "TypeError", field |-> <<>>]
    ELSE [err |-> "none", field |-> <<>>]

\* _CmdSub.__init__, key 'event': eventcode_as_str(val); on TypeError (val is
\* no integer) "self.event = '' + val", which raises TypeError for a list
SubEvent(val) ==
    IF val.kind = "int" THEN [err |-> "none", field |-> eventcode_as_str(val.n)]
    ELSE IF val.kind = "str" THEN [err |-> "none", field |-> val.names]
    ELSE [err |-> "TypeError", field |-> <<>>]

\* The command constructor and as_dict() for one option: what is raised, and
\* the field the record carries for the option; as_dict() writes the field
\* only "if self.showExtInfos:" / "if self.event:", so an empty field is not
\* on the wire.  A key the constructor does not know raises ValueError;
\* _CmdSub.as_dict() without an event option reads self.event, which
\* __init__ has not set: AttributeError.
EncVerbs == {"get", "subscribe"}
OptOf == [get |-> "showExtInfos", subscribe |-> "event"]

CmdCtor(verb, opt, val) ==
    IF opt = "unknown" THEN [err |-> "ValueError", field |-> <<>>]
    ELSE IF val.kind = "absent"
    THEN [err |-> IF verb = "subscribe" THEN "AttributeError" ELSE "none", field |-> <<>>]
    ELSE IF verb = "get" THEN GetShowExtInfos(val)
    ELSE SubEvent(val)

EncIdle == [st |-> "idle", verb |-> "none", opt |-> "none", val |-> NoVal,
            field |-> <<>>, err |-> "none"]

\* a public operation is called with one option: the command is constructed
\* and encoded, or the call raises
EncCall(verb, opt, val) ==
    /\ enc.st = "idle"
    /\ verb \in EncVerbs
    /\ opt \in {OptOf[verb], "unknown"}
    /\ LET r == CmdCtor(verb, opt, val)
       IN enc' = [st |-> IF r.err = "none" THEN "built" ELSE "raised",
                  verb |-> verb, opt |-> opt, val |-> val, field |-> r.field,
                  err |-> r.err]
    /\ UNCHANGED <<pending, cont, registry, subs, call, nOps, rx, curr, nFrames,
                   pureLog, wire, conn, ready, lst, evq, disp, fired, ws, lk>>

\* _send_frame: json.dumps(frame_obj.as_dict()) goes to _send_message
EncSend ==
    /\ enc.st = "built"
    /\ enc' = [enc EXCEPT !.st = "sent"]
    /\ UNCHANGED <<pending, cont, registry, subs, call, nOps, rx, curr, nFrames,
                   pureLog, wire, conn, ready, lst, evq, disp, fired, ws, lk>>

\* the call has returned or raised
EncReturn ==
    /\ enc.st \in {"sent", "raised"}
    /\ enc' = EncIdle
    /\ UNCHANGED <<pending, cont, registry, subs, call, nOps, rx, curr, nFrames,
                   pureLog, wire, conn, ready, lst, evq, disp, fired, ws, lk>>

\* ------------------------------------------------ the public operations
\* First step of a public operation: the command constructor (prepare_tag, then
\* the option checks), then _send_frame -> as_dict()/json.dumps: everything up
\* to the entry of _send_message.  Only prepare_tag touches shared state.
\*   bad options: the constructor raises after prepare_tag has run;
\*   subscribe without event: _CmdSub.as_dict reads self.event, which
\*     __init__ sets only when the event option is given: AttributeError;
\*   update(path=.. / tag=..): the assert fires before dp_sub is called.
CtorOutcome(op, kw) ==
    IF kw = "bad" THEN "ValueError"
    ELSE IF OpVerb[op] = "subscribe" /\ kw = "noevent" THEN "AttributeError"
    ELSE "none"

StartFresh(c, op, kw, maxOps) ==
    /\ call[c].pc = "idle"
    /\ nOps < maxOps
    /\ op \in FreshOps
    /\ kw \in {"ok", "bad"} \cup (IF OpVerb[op] = "subscribe" THEN {"noevent"} ELSE {})
    /\ NumMinted < Len(TagNames)
    /\ LET e == CtorOutcome(op, kw)
           next == IF e = "none" THEN [Idle EXCEPT !.pc = "send"]
                   ELSE [Idle EXCEPT !.pc = "raised", !.err = e]
       IN prepare_tag(c, op, TagNames[NumMinted + 1], TRUE, next)
    /\ nOps' = nOps + 1
    /\ UNCHANGED <<registry, subs, rx, curr, nFrames, pureLog, wire, conn, ready>>
    /\ UNCHANGED evvars
    /\ UNCHANGED <<ws, enc, lk>>

\* a plausible slip: path and tag are looked at after the command was built
StartUpdateLateAssert(c, s, kw, maxOps) ==
    /\ call[c].pc = "idle"
    /\ nOps < maxOps
    /\ s \in subs
    /\ kw \in Kwargs
    /\ nOps' = nOps + 1
    /\ LET e == IF kw = "pathtag" THEN "AssertionError" ELSE CtorOutcome("update", kw)
           next == IF e = "none" THEN [Idle EXCEPT !.pc = "send"]
                   ELSE [Idle EXCEPT !.pc = "raised", !.err = e]
       IN prepare_tag(c, "update", s, FALSE, next)
    /\ UNCHANGED <<registry, subs, rx, curr, nFrames, pureLog, wire, conn, ready>>
    /\ UNCHANGED evvars
    /\ UNCHANGED <<ws, enc, lk>>

\* SubscriptionES.update(**kwargs)
StartUpdate(c, s, kw, maxOps) ==
    /\ call[c].pc = "idle"
    /\ nOps < maxOps
    /\ s \in subs
    /\ kw \in Kwargs
    /\ nOps' = nOps + 1
    /\ IF kw = "pathtag"
       THEN /\ call' = SetCall(c, [Idle EXCEPT !.pc = "raised", !.op = "update",
                                               !.tag = s, !.err = "AssertionError"])
            /\ UNCHANGED <<pending, cont>>
       ELSE LET e == CtorOutcome("update", kw)
                next == IF e = "none" THEN [Idle EXCEPT !.pc = "send"]
                        ELSE [Idle EXCEPT !.pc = "raised", !.err = e]
            IN prepare_tag(c, "update", s, FALSE, next)
    /\ UNCHANGED <<registry, subs, rx, curr, nFrames, pureLog, wire, conn, ready>>
    /\ UNCHANGED evvars
    /\ UNCHANGED <<ws, enc, lk>>

\* SubscriptionES.unsubscribe() -> _dp_unsub(path, tag)
StartUnsubscribe(c, s, maxOps) ==
    /\ call[c].pc = "idle"
    /\ nOps < maxOps
    /\ s \in subs
    /\ nOps' = nOps + 1
    /\ prepare_tag(c, "unsubscribe", s, FALSE, [Idle EXCEPT !.pc = "send"])
    /\ UNCHANGED <<registry, subs, rx, curr, nFrames, pureLog, wire, conn, ready>>
    /\ UNCHANGED evvars
    /\ UNCHANGED <<ws, enc, lk>>

\* ------------------------------------------------------- _send_message
\* a plausible slip: the result of wait() is not looked at
SendReadyAlways(c) ==
    /\ call[c].pc = "send"
    /\ call' = SetCall(c, [call[c] EXCEPT !.pc = "xmit"])
    /\ UNCHANGED <<pending, cont, registry, subs, nOps, rx, curr, nFrames, pureLog,
                   wire, conn, ready>>
    /\ UNCHANGED evvars
    /\ UNCHANGED <<ws, enc, lk>>

\* ready_to_send.wait(timeout=60) returned True
SendReady(c) ==
    /\ call[c].pc = "send"
    /\ ready
    /\ call' = SetCall(c, [call[c] EXCEPT !.pc = "xmit"])
    /\ UNCHANGED <<pending, cont, registry, subs, nOps, rx, curr, nFrames, pureLog,
                   wire, conn, ready>>
    /\ UNCHANGED evvars
    /\ UNCHANGED <<ws, enc, lk>>

\* ready_to_send.wait(timeout=60) returned False: IOError
SendTimeout(c) ==
    /\ call[c].pc = "send"
    /\ ~ready
    /\ call' = Raise(c, "IOError")
    /\ UNCHANGED <<pending, cont, registry, subs, nOps, rx, curr, nFrames, pureLog,
                   wire, conn, ready>>
    /\ UNCHANGED evvars
    /\ UNCHANGED <<ws, enc, lk>>

\* self._ws.send(msg): the transport takes the message while the socket is
\* there and raises once it is closed
Xmit(c) ==
    /\ call[c].pc = "xmit"
    /\ IF conn = "open"
       THEN /\ wire' = wire \cup {<<OpVerb[call[c].op], call[c].tag>>}
            /\ call' = SetCall(c, [call[c] EXCEPT !.pc = "spin"])
       ELSE /\ wire' = wire
            /\ call' = Raise(c, "ConnectionClosed")
    /\ UNCHANGED <<pending, cont, registry, subs, nOps, rx, curr, nFrames, pureLog,
                   conn, ready>>
    /\ UNCHANGED evvars
    /\ UNCHANGED <<ws, enc, lk>>


\* -------------------------------------------- _busy_wait_for_response
\* "while not tag in self._pending_response_dict: time.sleep(SLEEP_TIMEBASE)":
\* one more turn of the loop; the timeout does not run here
TakeSpin(c) ==
    /\ call[c].pc = "spin"
    /\ call[c].tag \notin DOMAIN pending
    /\ UNCHANGED vars

\* the loop's test finds the tag
TakeFound(c) ==
    /\ call[c].pc = "spin"
    /\ call[c].tag \in DOMAIN pending
    /\ call' = SetCall(c, [call[c] EXCEPT !.pc = "getev"])
    /\ UNCHANGED <<pending, cont, registry, subs, nOps, rx, curr, nFrames, pureLog,
                   wire, conn, ready>>
    /\ UNCHANGED evvars
    /\ UNCHANGED <<ws, enc, lk>>

\* with lock: isAvailable = self._pending_response_dict[tag].isAvailable
TakeGetEvent(c) ==
    /\ call[c].pc = "getev"
    /\ IF call[c].tag \in DOMAIN pending
       THEN call' = SetCall(c, [call[c] EXCEPT !.pc = "wait", !.ev = pending[call[c].tag]])
       ELSE call' = Raise(c, "KeyError")
    /\ UNCHANGED <<pending, cont, registry, subs, nOps, rx, curr, nFrames, pureLog,
                   wire, conn, ready>>
    /\ UNCHANGED evvars
    /\ UNCHANGED <<ws, enc, lk>>

\* isAvailable.wait(timeout) returns True
TakeWake(c) ==
    /\ call[c].pc = "wait"
    /\ cont[call[c].ev].avail
    /\ call' = SetCall(c, [call[c] EXCEPT !.pc = "pop"])
    /\ UNCHANGED <<pending, cont, registry, subs, nOps, rx, curr, nFrames, pureLog,
                   wire, conn, ready>>
    /\ UNCHANGED evvars
    /\ UNCHANGED <<ws, enc, lk>>

\* isAvailable.wait(timeout) returns False: raise Exception('got no response ..')
TakeTimeout(c) ==
    /\ call[c].pc = "wait"
    /\ ~cont[call[c].ev].avail
    /\ call' = Raise(c, "Timeout")
    /\ cont' = [cont EXCEPT ![call[c].ev].leaked = TRUE]
    /\ UNCHANGED <<pending, registry, subs, nOps, rx, curr, nFrames, pureLog,
                   wire, conn, ready>>
    /\ UNCHANGED evvars
    /\ UNCHANGED <<ws, enc, lk>>

\* a plausible slip: the container is read, dict[tag], and stays in the table
PopDictKeep(t) == pending

\* what the dictionary is after "curr_container = dict.pop(tag)"
PopDict(t) == DictDel(pending, t)

\* where a public operation goes once take has returned the list
AfterTake(op) == IF op \in {"get_dp_subscription", "unsubscribe"} THEN "post" ELSE "done"

\* with lock: curr_container = dict.pop(tag);  return curr_container.response_list
TakePop(c) ==
    /\ call[c].pc = "pop"
    /\ IF call[c].tag \in DOMAIN pending
       THEN LET k == pending[call[c].tag] IN
            /\ pending' = PopDict(call[c].tag)
            /\ cont' = [cont EXCEPT ![k].taken = @ + 1]
            /\ call' = SetCall(c, [call[c] EXCEPT !.pc = AfterTake(call[c].op),
                                                  !.res = cont[k].list, !.got = k])
       ELSE /\ call' = Raise(c, "KeyError")
            /\ UNCHANGED <<pending, cont>>
    /\ UNCHANGED <<registry, subs, nOps, rx, curr, nFrames, pureLog, wire, conn, ready>>
    /\ UNCHANGED evvars
    /\ UNCHANGED <<ws, enc, lk>>

\* a plausible slip: the reply's code is not looked at
AcceptedAny(r) == TRUE

\* 'if response["code"] == 'ok'': DMS accepted the subscription
Accepted(r) == r.code = "ok"

\* get_dp_subscription after dp_sub(..)[0]: register a SubscriptionES under the
\* reply's tag when its code is ok, else raise
PostSubscribe(c) ==
    /\ call[c].pc = "post"
    /\ call[c].op = "get_dp_subscription"
    /\ IF call[c].res = <<>>
       THEN /\ call' = Raise(c, "IndexError")
            /\ UNCHANGED <<registry, subs, lst>>
       ELSE IF Accepted(call[c].res[1])
       THEN /\ registry' = DictSet(registry, call[c].res[1].tag, [by |-> call[c].tag])
            /\ subs' = subs \cup {call[c].res[1].tag}
            /\ lst' = DictSet(lst, call[c].res[1].tag, <<>>)
            /\ call' = SetCall(c, [call[c] EXCEPT !.pc = "done"])
       ELSE /\ call' = Raise(c, "NotOk")
            /\ UNCHANGED <<registry, subs, lst>>
    /\ UNCHANGED <<pending, cont, nOps, rx, curr, nFrames, pureLog, wire, conn, ready>>
    /\ UNCHANGED <<evq, disp, fired>>
    /\ UNCHANGED <<ws, enc, lk>>

\* unsubscribe after _dp_unsub returned: del_subscription(self)
PostUnsubscribe(c) ==
    /\ call[c].pc = "post"
    /\ call[c].op = "unsubscribe"
    /\ IF call[c].tag \in DOMAIN registry
       THEN /\ registry' = DictDel(registry, call[c].tag)
            /\ call' = SetCall(c, [call[c] EXCEPT !.pc = "done"])
       ELSE /\ call' = Raise(c, "KeyError")
            /\ UNCHANGED registry
    /\ UNCHANGED <<pending, cont, subs, nOps, rx, curr, nFrames, pureLog, wire, conn,
                   ready>>
    /\ UNCHANGED evvars
    /\ UNCHANGED <<ws, enc, lk>>

\* the public operation has returned or raised; the caller is free again
Return(c) ==
    /\ call[c].pc \in {"done", "raised"}
    /\ call' = SetCall(c, Idle)
    /\ UNCHANGED <<pending, cont, registry, subs, nOps, rx, curr, nFrames, pureLog,
                   wire, conn, ready>>
    /\ UNCHANGED evvars
    /\ UNCHANGED <<ws, enc, lk>>


\* ------------------------------------------------------ inbound frames
\* The server answers commands it has received: a reply record stands in the
\* verb block of its command and carries the command's tag, or no tag at all;
\* it may batch several answers in one frame and may answer a command again.
ReplyCodes(verb) == IF verb = "subscribe" THEN {"ok", "error"} ELSE {"ok"}

ReplyOptions(w) ==
    UNION {{[verb |-> m[1], tag |-> m[2], code |-> cd] : cd \in ReplyCodes(m[1])}
              \cup {[verb |-> m[1], tag |-> NoTag, code |-> "ok"]} : m \in w}

ReplySeqs(w, n) == UNION {[1..k -> ReplyOptions(w)] : k \in 1..n}

\* the records of verb v in wire order
OfVerb(s, v) == SelectSeq(s, LAMBDA o : o.verb = v)

\* The payload_dict of a frame: its verb blocks in the order handle() walks
\* them, each record numbered by its place in the block.  The records of
\* changelogGetGroups have no tag on the wire: their tags travel in the
\* envelope's helper map {changelogGetGroups: [..]}, which the server echoes
\* (hasmap) or leaves out.
MakeFrame(s, fr) ==
    LET block(j) ==
            LET v == VerbOrder[j]
                sel == OfVerb(s, v)
            IN [verb |-> v,
                recs |-> [n \in 1..Len(sel) |->
                            [tag |-> IF v = "changelogGetGroups" THEN NoTag ELSE sel[n].tag,
                             code |-> sel[n].code, cls |-> v, fr |-> fr, i |-> n]]]
        groups == OfVerb(s, "changelogGetGroups")
    IN [blocks |-> SelectSeq([j \in 1..Len(VerbOrder) |-> block(j)],
                             LAMBDA b : b.recs # <<>>),
        hasmap |-> groups # <<>> /\ \A n \in 1..Len(groups) : groups[n].tag # NoTag,
        tagmap |-> [n \in 1..Len(groups) |-> groups[n].tag]]

\* The event records of a frame, payload_dict['event'], in wire order; fr and i
\* are history fields: the frame and the place in it.
MakeEvents(es, fr) == [n \in 1..Len(es) |-> [tag |-> es[n], fr |-> fr, i |-> n]]

\* history: <<tag, k>> when the frame is k records of one tag under one verb
Pure(s) ==
    IF /\ s[1].tag # NoTag
       /\ \A n \in 1..Len(s) : s[n].tag = s[1].tag /\ s[n].verb = s[1].verb
    THEN <<s[1].tag, Len(s)>>
    ELSE <<NoTag, 0>>

\* ------------------------------------------------------------- handle()
\* Current_response.clear()
Cleared == [msg_tag |-> "", resp_list |-> <<>>]

\* a plausible slip: no try block around the reply section, the exception
\* ends handle()
AfterRepliesSkipEvents(r) == RxIdle

\* the reply section is over (all verb blocks walked, or the except clause
\* was reached): handle() goes on to the frame's events and returns
AfterReplies(r) ==
    IF r.evs = <<>> THEN RxIdle
    ELSE [RxIdle EXCEPT !.evs = r.evs, !.phase = "event", !.i = 1]

\* a plausible slip: the helper map's tags are not copied into the records
EnterBlockNoCopy(r, cur, b) ==
    IF b > Len(r.frame) THEN [rx |-> AfterReplies(r), curr |-> cur]
    ELSE [rx |-> [r EXCEPT !.b = b, !.i = 1, !.phase = "rec"], curr |-> Cleared]

\* Entering verb block b: clear the response list; for changelogGetGroups copy
\* the helper map's tags into the records by index (KeyError without a map).
EnterBlock(r, cur, b) ==
    IF b > Len(r.frame) THEN [rx |-> AfterReplies(r), curr |-> cur]
    ELSE IF r.frame[b].verb = "changelogGetGroups"
    THEN IF ~r.hasmap \/ Len(r.tagmap) < Len(r.frame[b].recs)
         THEN [rx |-> AfterReplies(r), curr |-> Cleared]
         ELSE [rx |-> [r EXCEPT !.b = b, !.i = 1, !.phase = "rec",
                                !.frame[b].recs =
                                    [n \in 1..Len(@) |-> [@[n] EXCEPT !.tag = r.tagmap[n]]]],
               curr |-> Cleared]
    ELSE [rx |-> [r EXCEPT !.b = b, !.i = 1, !.phase = "rec"], curr |-> Cleared]

\* next record of the block, or the code after the block's loop
Advance(r) ==
    IF r.i < Len(r.frame[r.b].recs) THEN [r EXCEPT !.i = @ + 1]
    ELSE [r EXCEPT !.phase = "end"]

\* _cb_on_message(ws, message) -> handle(msg): json.loads and the entry of the
\* first verb block present
\* s: the reply records of the frame, es: the tags of its event records
ReceiveFrame(s, es, maxFrames) ==
    /\ conn = "open"
    /\ rx.phase = "idle"
    /\ nFrames < maxFrames
    /\ LET f == MakeFrame(s, nFrames + 1)
           e == EnterBlock([RxIdle EXCEPT !.frame = f.blocks, !.hasmap = f.hasmap,
                                          !.tagmap = f.tagmap,
                                          !.evs = MakeEvents(es, nFrames + 1)],
                           curr, 1)
       IN /\ rx' = e.rx
          /\ curr' = e.curr
    /\ nFrames' = nFrames + 1
    /\ pureLog' = Append(pureLog, IF s = <<>> THEN <<NoTag, 0>> ELSE Pure(s))
    /\ UNCHANGED <<pending, cont, registry, subs, call, nOps, wire, conn, ready>>
    /\ UNCHANGED evvars
    /\ UNCHANGED <<ws, enc, lk>>

\* a frame without an 'event' key
Receive(s, maxFrames) == ReceiveFrame(s, <<>>, maxFrames)

\* The key under which handle() stores the list collected so far when a record
\* with another tag follows: "if curr_tag in self._pending_response_dict: ..
\* self._pending_response_dict[curr_tag].response_list = resp_list".
OtherTagKey(curr_tag, msg_tag) == curr_tag

\* a plausible slip: the list is assigned, not extended
CollectAssign(list, rec) == <<rec>>

\* "appending to current list": resp_list.append(resp_cls(**response))
Collect(list, rec) == Append(list, rec)

\* complete: attach the list to the container and set isAvailable
Complete(k, list) == [cont EXCEPT ![k] = [@ EXCEPT !.list = list, !.avail = TRUE]]

\* one turn of "for response in payload_dict[resp_type]" up to the lock
RxRecord ==
    /\ rx.phase = "rec"
    /\ LET rec == rx.frame[rx.b].recs[rx.i]
           bound == [rx EXCEPT !.curr_tag = rec.tag]
       IN IF rec.tag = NoTag
          THEN /\ rx' = Advance(rx)
               /\ UNCHANGED curr
          ELSE IF rec.tag = curr.msg_tag
          THEN /\ curr' = [curr EXCEPT !.resp_list = Collect(@, rec)]
               /\ rx' = Advance(bound)
          ELSE IF /\ curr.msg_tag # ""
                  /\ curr.resp_list # <<>>
                  /\ OtherTagKey(rec.tag, curr.msg_tag) \in DOMAIN pending
          THEN /\ rx' = [bound EXCEPT !.phase = "store"]
               /\ UNCHANGED curr
          ELSE /\ curr' = [msg_tag |-> rec.tag, resp_list |-> <<rec>>]
               /\ rx' = Advance(bound)
    /\ UNCHANGED <<pending, cont, registry, subs, call, nOps, nFrames, pureLog, wire,
                   conn, ready>>
    /\ UNCHANGED evvars
    /\ UNCHANGED <<ws, enc, lk>>

\* "with self._pending_response_lock:" inside the loop, then the new list
RxStoreOther ==
    /\ rx.phase = "store"
    /\ LET rec == rx.frame[rx.b].recs[rx.i]
           key == OtherTagKey(rx.curr_tag, curr.msg_tag)
       IN IF key \in DOMAIN pending
          THEN /\ cont' = Complete(pending[key], curr.resp_list)
               /\ curr' = [msg_tag |-> rec.tag, resp_list |-> <<rec>>]
               /\ rx' = Advance([rx EXCEPT !.phase = "rec"])
          ELSE /\ rx' = AfterReplies(rx)
               /\ UNCHANGED <<cont, curr>>
    /\ UNCHANGED <<pending, registry, subs, call, nOps, nFrames, pureLog, wire, conn,
                   ready>>
    /\ UNCHANGED evvars
    /\ UNCHANGED <<ws, enc, lk>>

\* "storing collected list for other thread" after the block's loop; a curr_tag
\* never assigned (NameError) or without a slot (KeyError) ends the reply section
RxBlockEnd ==
    /\ rx.phase = "end"
    /\ IF rx.curr_tag # Unbound /\ rx.curr_tag \in DOMAIN pending
       THEN LET e == EnterBlock(rx, curr, rx.b + 1)
            IN /\ cont' = Complete(pending[rx.curr_tag], curr.resp_list)
               /\ rx' = e.rx
               /\ curr' = e.curr
       ELSE /\ rx' = AfterReplies(rx)
            /\ UNCHANGED <<cont, curr>>
    /\ UNCHANGED <<pending, registry, subs, call, nOps, nFrames, pureLog, wire, conn,
                   ready>>
    /\ UNCHANGED evvars
    /\ UNCHANGED <<ws, enc, lk>>

\* ------------------------------------------------------ the dispatcher
\* no event in work
NoEvent == [tag |-> NoTag, fr |-> 0, i |-> 0]

\* _SubscriptionES_Dispatcher(event_q): keep_running = True, not yet started.
\* sub, ev, hs, k: the pair taken from the queue, the handlers being called
\* for it and the place among them.  warn: _do_warn_queuesize; warned is a
\* history field: the queue-size warnings logged so far.
DispCreated ==
    [st |-> "created", keep |-> TRUE, pc |-> "poll", sub |-> NoTag, ev |-> NoEvent,
     hs |-> <<>>, k |-> 0, warn |-> TRUE, warned |-> 0]

\* EVENTQUEUE_WARNSIZE
EVENTQUEUE_WARNSIZE == 100

\* queue.Queue(): maxsize 0, a queue without a limit, whose put() never waits
QueueMaxsize == 0

\* a plausible slip: a queue of one place, whose put() waits for the dispatcher
PutBlocksFull(q) == Len(q) >= 1

\* put() waits while a limited queue is full
PutBlocks(q) == QueueMaxsize > 0 /\ Len(q) >= QueueMaxsize

\* a plausible slip: the event is routed to any subscription object ever made
RoutedStale(e) == e.tag \in DOMAIN lst /\ Len(lst[e.tag]) > 0

\* a plausible slip: the number of handlers is not looked at
RoutedNoLen(e) == e.tag \in DOMAIN registry

\* handle(), event section: subES = _subscriptionES_objs_dict[event_obj.tag]
\* (KeyError: the event is dropped), then "if len(subES) > 0"
Routed(e) == e.tag \in DOMAIN registry /\ Len(lst[e.tag]) > 0

\* handle(): one record of payload_dict['event']; every record has its own
\* try/except, so the loop always goes on to the next one
RxEvent ==
    /\ rx.phase = "event"
    /\ LET e == rx.evs[rx.i]
       IN /\ Routed(e) => ~PutBlocks(evq)
          /\ evq' = IF Routed(e) THEN Append(evq, [sub |-> e.tag, ev |-> e]) ELSE evq
    /\ rx' = IF rx.i = Len(rx.evs) THEN RxIdle ELSE [rx EXCEPT !.i = @ + 1]
    /\ UNCHANGED <<pending, cont, registry, subs, call, nOps, curr, nFrames, pureLog,
                   wire, conn, ready, lst, disp, fired>>
    /\ UNCHANGED <<ws, enc, lk>>

\* handle() is inside a frame and does its next step
RxStep == RxRecord \/ RxStoreOther \/ RxBlockEnd \/ RxEvent

\* history: unsubscribe() of the subscription has returned
Unsubscribed(s) ==
    /\ s \in DOMAIN lst
    /\ s \notin DOMAIN registry
    /\ \A c \in Threads : ~(call[c].op = "unsubscribe" /\ call[c].tag = s)

\* a plausible slip: the newest pair is taken (a LIFO queue)
DispGetLifo ==
    /\ disp.st = "running"
    /\ disp.pc = "poll"
    /\ disp.keep
    /\ evq # <<>>
    /\ evq' = SubSeq(evq, 1, Len(evq) - 1)
    /\ disp' = [disp EXCEPT !.pc = "fire", !.sub = evq[Len(evq)].sub,
                            !.ev = evq[Len(evq)].ev,
                            !.hs = lst[evq[Len(evq)].sub], !.k = 1]
    /\ UNCHANGED <<pending, cont, registry, subs, call, nOps, rx, curr, nFrames,
                   pureLog, wire, conn, ready, lst, fired>>
    /\ UNCHANGED <<ws, enc, lk>>

\* run(): "subES, event_obj = self._event_q.get(block=False)" with a pair in
\* the queue, then "result = subES(event_obj)" begins: the handlers attached
\* at this moment are the ones called
DispGet ==
    /\ disp.st = "running"
    /\ disp.pc = "poll"
    /\ disp.keep
    /\ evq # <<>>
    /\ evq' = Tail(evq)
    /\ disp' = [disp EXCEPT !.pc = "fire", !.sub = evq[1].sub, !.ev = evq[1].ev,
                            !.hs = lst[evq[1].sub], !.k = 1]
    /\ UNCHANGED <<pending, cont, registry, subs, call, nOps, rx, curr, nFrames,
                   pureLog, wire, conn, ready, lst, fired>>
    /\ UNCHANGED <<ws, enc, lk>>

\* run(): "while self.keep_running" found False: the thread ends
DispExit ==
    /\ disp.st = "running"
    /\ disp.pc = "poll"
    /\ ~disp.keep
    /\ disp' = [disp EXCEPT !.st = "ended"]
    /\ UNCHANGED <<pending, cont, registry, subs, call, nOps, rx, curr, nFrames,
                   pureLog, wire, conn, ready, lst, evq, fired>>
    /\ UNCHANGED <<ws, enc, lk>>

\* the entry of the history for handler k of the event in work
Invocation(success) ==
    [sub |-> disp.sub, ev |-> disp.ev, h |-> disp.k, kind |-> disp.hs[disp.k],
     ok |-> success, late |-> Unsubscribed(disp.sub)]

\* subES(event_obj) calls the next handler; a handler that raises gives the
\* result tuple (False, exc_info, handler) and the next handler is called
FireHandler ==
    /\ disp.pc = "fire"
    /\ disp.k <= Len(disp.hs)
    /\ disp.hs[disp.k] \in {"ok", "raise"}
    /\ fired' = Append(fired, Invocation(disp.hs[disp.k] = "ok"))
    /\ disp' = [disp EXCEPT !.k = @ + 1]
    /\ UNCHANGED <<pending, cont, registry, subs, call, nOps, rx, curr, nFrames,
                   pureLog, wire, conn, ready, lst, evq>>
    /\ UNCHANGED <<ws, enc, lk>>

\* a handler that calls back into the client: it runs dp_get on the
\* dispatcher thread
FireCall ==
    /\ disp.pc = "fire"
    /\ disp.k <= Len(disp.hs)
    /\ disp.hs[disp.k] = "get"
    /\ disp' = [disp EXCEPT !.pc = "incall"]
    /\ UNCHANGED <<pending, cont, registry, subs, call, nOps, rx, curr, nFrames,
                   pureLog, wire, conn, ready, lst, evq, fired>>
    /\ UNCHANGED <<ws, enc, lk>>

HandlerCall(maxOps) ==
    /\ disp.pc = "incall"
    /\ StartFresh(DispThread, "dp_get", "ok", maxOps)

\* the handler's dp_get has returned or raised, and with it the handler
FireCallEnd ==
    /\ disp.pc = "incall"
    /\ call[DispThread].pc \in {"done", "raised"}
    /\ fired' = Append(fired, Invocation(call[DispThread].pc = "done"))
    /\ call' = SetCall(DispThread, Idle)
    /\ disp' = [disp EXCEPT !.pc = "fire", !.k = @ + 1]
    /\ UNCHANGED <<pending, cont, registry, subs, nOps, rx, curr, nFrames, pureLog,
                   wire, conn, ready, lst, evq>>
    /\ UNCHANGED <<ws, enc, lk>>

\* run(): the result list is there; its entries are logged, the handlers that
\* failed with logger.error, and the loop goes on
DispAfterFire == [disp EXCEPT !.pc = "poll", !.sub = NoTag, !.ev = NoEvent,
                              !.hs = <<>>, !.k = 0]

\* a plausible slip: the exception of a handler comes out of subES(event_obj),
\* which run() calls outside any try block: the thread ends
DispDoneRaise ==
    /\ disp.pc = "fire"
    /\ \/ /\ disp.k > Len(disp.hs)
          /\ disp' = DispAfterFire
       \/ /\ disp.k > 1
          /\ ~fired[Len(fired)].ok
          /\ disp' = [DispAfterFire EXCEPT !.st = "ended"]
    /\ UNCHANGED <<pending, cont, registry, subs, call, nOps, rx, curr, nFrames,
                   pureLog, wire, conn, ready, lst, evq, fired>>
    /\ UNCHANGED <<ws, enc, lk>>

\* a plausible slip: the warning is armed again as soon as the queue is not
\* above the mark
WarnCheckRearmAtMark(d, q1, q2, mark) ==
    LET d1 == IF q1 > mark /\ d.warn
              THEN [d EXCEPT !.warn = FALSE, !.warned = @ + 1] ELSE d
    IN IF q2 <= mark THEN [d1 EXCEPT !.warn = TRUE] ELSE d1

\* run(), "diagnostic values": with q1 the first qsize() and q2 the second,
\*   if q1 > EVENTQUEUE_WARNSIZE and _do_warn_queuesize: flag off, warning
\*   if q2 < EVENTQUEUE_WARNSIZE: flag on
WarnCheck(d, q1, q2, mark) ==
    LET d1 == IF q1 > mark /\ d.warn
              THEN [d EXCEPT !.warn = FALSE, !.warned = @ + 1] ELSE d
    IN IF q2 < mark THEN [d1 EXCEPT !.warn = TRUE] ELSE d1

\* the events handle() has still to look at in the frame in work: each may be
\* put on the queue between the dispatcher's two calls of qsize()
PutsAhead == IF rx.phase = "event" THEN Len(rx.evs) - rx.i + 1 ELSE 0

\* run(): the firing is over, the queue size is checked against the mark and
\* the loop goes on.  Only the dispatcher takes pairs from the queue, so the
\* second qsize() is the first one or more.
DispDoneAt(mark) ==
    /\ disp.pc = "fire"
    /\ disp.k > Len(disp.hs)
    /\ \E q2 \in Len(evq)..(Len(evq) + PutsAhead) :
          disp' = WarnCheck(DispAfterFire, Len(evq), q2, mark)
    /\ UNCHANGED <<pending, cont, registry, subs, call, nOps, rx, curr, nFrames,
                   pureLog, wire, conn, ready, lst, evq, fired>>
    /\ UNCHANGED <<ws, enc, lk>>

\* run() with the mark of the source
DispDone == DispDoneAt(EVENTQUEUE_WARNSIZE)

\* "sub += handler", "sub -= handler" (EventSystem)
AddHandler(s, kind, maxHandlers) ==
    /\ s \in DOMAIN lst
    /\ Len(lst[s]) < maxHandlers
    /\ lst' = [lst EXCEPT ![s] = Append(@, kind)]
    /\ UNCHANGED <<pending, cont, registry, subs, call, nOps, rx, curr, nFrames,
                   pureLog, wire, conn, ready, evq, disp, fired>>
    /\ UNCHANGED <<ws, enc, lk>>

RemoveHandler(s, n) ==
    /\ s \in DOMAIN lst
    /\ n \in 1..Len(lst[s])
    /\ lst' = [lst EXCEPT ![s] = SubSeq(@, 1, n - 1) \o SubSeq(@, n + 1, Len(@))]
    /\ UNCHANGED <<pending, cont, registry, subs, call, nOps, rx, curr, nFrames,
                   pureLog, wire, conn, ready, evq, disp, fired>>
    /\ UNCHANGED <<ws, enc, lk>>

\* ---------------------------------------------------- transport callbacks
\* _cb_on_open: self._subES_disp_thread.start(), then ready_to_send.set().
\* The websocket thread is started inside DMSClient.__init__ before the
\* attribute _subES_disp_thread is assigned: a callback that runs before the
\* assignment ends with AttributeError at its first statement.
CbOnOpen ==
    /\ conn = "connecting"
    /\ conn' = "open"
    /\ IF disp.st = "absent"
       THEN UNCHANGED <<ready, disp>>
       ELSE /\ disp' = [disp EXCEPT !.st = "running"]
            /\ ready' = TRUE
    /\ UNCHANGED <<pending, cont, registry, subs, call, nOps, rx, curr, nFrames,
                   pureLog, wire, lst, evq, fired>>
    /\ UNCHANGED <<ws, enc, lk>>

\* a plausible slip: the close callback does not call _exit_subAE_thread()
CbOnCloseKeep ==
    /\ conn \in {"connecting", "open"}
    /\ rx.phase = "idle"
    /\ conn' = "closed"
    /\ ready' = FALSE
    /\ UNCHANGED <<pending, cont, registry, subs, call, nOps, rx, curr, nFrames,
                   pureLog, wire, lst, evq, disp, fired>>
    /\ UNCHANGED <<ws, enc, lk>>

\* _cb_on_close: ready_to_send.clear(), _exit_subAE_thread() (keep_running =
\* False on the dispatcher), _exit_ws_thread(); the callbacks run one after the other
\* on the websocket thread, so never inside handle()
CbOnClose ==
    /\ conn \in {"connecting", "open"}
    /\ rx.phase = "idle"
    /\ conn' = "closed"
    /\ ready' = FALSE
    /\ disp' = IF disp.st = "absent" THEN disp ELSE [disp EXCEPT !.keep = FALSE]
    /\ UNCHANGED <<pending, cont, registry, subs, call, nOps, rx, curr, nFrames,
                   pureLog, wire, lst, evq, fired>>
    /\ UNCHANGED <<ws, enc, lk>>

\* ------------------------------------------------------- specification
Init ==
    /\ pending = [t \in {} |-> 0]
    /\ cont = <<>>
    /\ registry = [t \in {} |-> 0]
    /\ subs = {}
    /\ call = [c \in Threads |-> Idle]
    /\ nOps = 0
    /\ rx = RxIdle
    /\ curr = Cleared
    /\ nFrames = 0
    /\ pureLog = <<>>
    /\ wire = {}
    /\ conn = "connecting"
    /\ ready = FALSE
    /\ lst = [t \in {} |-> <<>>]
    /\ evq = <<>>
    /\ disp = DispCreated
    /\ fired = <<>>
    /\ ws = WsNew
    /\ enc = EncIdle
    /\ lk = LkInit

\* the steps of a public operation that has been started
SendSteps(c) ==
    \/ SendReady(c)
    \/ SendTimeout(c)
    \/ Xmit(c)

TakeSteps(c) ==
    \/ TakeFound(c)
    \/ TakeGetEvent(c)
    \/ TakeWake(c)
    \/ TakeTimeout(c)
    \/ TakePop(c)

\* Spec: the connection from its construction on.  Its callers issue dp_get
\* (the operations dp_set, dp_ren, dp_del, changelog_GetGroups, changelog_Read
\* run the same code with another verb), get_dp_subscription, and update() and
\* unsubscribe() on the subscriptions they got.  The turn of the spin loop
\* that finds no slot changes nothing; it is an action of SpecSub, where two
\* callers share a tag.
SpecOps == {"dp_get", "get_dp_subscription"}

Next ==
    \/ \E c \in Callers, op \in SpecOps, kw \in Kwargs : StartFresh(c, op, kw, MaxOps)
    \/ \E c \in Callers, s \in subs, kw \in Kwargs : StartUpdate(c, s, kw, MaxOps)
    \/ \E c \in Callers, s \in subs : StartUnsubscribe(c, s, MaxOps)
    \/ \E c \in Callers : SendSteps(c)
    \/ \E c \in Callers : TakeSteps(c)
    \/ \E c \in Callers : PostSubscribe(c)
    \/ \E c \in Callers : PostUnsubscribe(c)
    \/ \E c \in Callers : Return(c)
    \/ \E s \in ReplySeqs(wire, MaxRecs) : Receive(s, MaxFrames)
    \/ RxRecord
    \/ RxStoreOther
    \/ RxBlockEnd
    \/ CbOnOpen
    \/ CbOnClose

Spec == Init /\ [][Next]_vars

\* SpecGet: two callers of dp_get on a fresh connection, frames of several
\* records.
NextGet ==
    \/ \E c \in Callers, kw \in {"ok", "bad"} : StartFresh(c, "dp_get", kw, GetMaxOps)
    \/ \E c \in Callers : SendSteps(c)
    \/ \E c \in Callers : TakeSteps(c)
    \/ \E c \in Callers : Return(c)
    \/ \E s \in ReplySeqs(wire, GetMaxRecs) : Receive(s, GetMaxFrames)
    \/ RxRecord
    \/ RxStoreOther
    \/ RxBlockEnd
    \/ CbOnOpen
    \/ CbOnClose

SpecGet == Init /\ [][NextGet]_vars

\* SpecSub: the connection once get_dp_subscription has returned its first
\* subscription (a state Spec reaches: one operation, one frame); the callers
\* share the SubscriptionES object and call update() and unsubscribe() on it.
FirstReply == [tag |-> "t1", code |-> "ok", cls |-> "subscribe", fr |-> 1, i |-> 1]

InitSub ==
    /\ pending = [t \in {} |-> 0]
    /\ cont = <<[NewContainer("t1", TRUE) EXCEPT !.avail = TRUE, !.list = <<FirstReply>>,
                                                !.taken = 1]>>
    /\ registry = [t \in {"t1"} |-> [by |-> "t1"]]
    /\ subs = {"t1"}
    /\ call = [c \in Threads |-> Idle]
    /\ nOps = 1
    /\ rx = RxIdle
    /\ curr = [msg_tag |-> "t1", resp_list |-> <<FirstReply>>]
    /\ nFrames = 1
    /\ pureLog = << <<"t1", 1>> >>
    /\ wire = {<<"subscribe", "t1">>}
    /\ conn = "open"
    /\ ready = TRUE
    /\ lst = [t \in {"t1"} |-> <<>>]
    /\ evq = <<>>
    /\ disp = [DispCreated EXCEPT !.st = "running"]
    /\ fired = <<>>
    /\ ws = WsNew
    /\ enc = EncIdle
    /\ lk = LkInit

NextSub ==
    \/ \E c \in Callers, s \in subs, kw \in Kwargs : StartUpdate(c, s, kw, SubMaxOps)
    \/ \E c \in Callers, s \in subs : StartUnsubscribe(c, s, SubMaxOps)
    \/ \E c \in Callers : SendSteps(c)
    \/ \E c \in Callers : TakeSpin(c)
    \/ \E c \in Callers : TakeSteps(c)
    \/ \E c \in Callers : PostUnsubscribe(c)
    \/ \E c \in Callers : Return(c)
    \/ \E s \in ReplySeqs(wire, SubMaxRecs) : Receive(s, SubMaxFrames)
    \/ RxRecord
    \/ RxBlockEnd
    \/ CbOnClose

SpecSub == InitSub /\ [][NextSub]_vars


\* SpecSubFair: SpecSub with the scheduling the threads have: a caller inside
\* a public operation goes on running (a wait with a timeout returns), and so
\* does the websocket thread inside handle().  Nothing obliges a caller to
\* start an operation, the server to send a frame, or the connection to close.
SpecSubFair ==
    /\ SpecSub
    /\ \A c \in Callers : WF_vars(SendSteps(c) \/ TakeSteps(c) \/ PostUnsubscribe(c))
    /\ WF_vars(RxRecord \/ RxBlockEnd)

\* SpecEv: a subscription (tag t1) is registered and the dispatcher runs; the
\* caller attaches and detaches handlers and unsubscribes, the server sends
\* replies and events, for the subscription's tag and for a tag that no
\* subscription has.
ForeignTag == "tx"
EventTags == {"t1", ForeignTag}
EventSeqs(n) == UNION {[1..k -> EventTags] : k \in 0..n}
FrameSeqs(w, nRecs, nEvents) ==
    {p \in (ReplySeqs(w, nRecs) \cup {<<>>}) \X EventSeqs(nEvents) :
        p[1] # <<>> \/ p[2] # <<>>}

InitEv == InitSub

NextEv ==
    \/ \E s \in DOMAIN lst, kind \in {"ok", "raise"} : AddHandler(s, kind, EvMaxHandlers)
    \/ \E s \in DOMAIN lst, n \in 1..EvMaxHandlers : RemoveHandler(s, n)
    \/ \E s \in subs : StartUnsubscribe("c1", s, EvMaxOps)
    \/ SendSteps("c1")
    \/ TakeSteps("c1")
    \/ PostUnsubscribe("c1")
    \/ Return("c1")
    \/ \E p \in FrameSeqs(wire, 1, EvMaxEvents) : ReceiveFrame(p[1], p[2], EvMaxFrames)
    \/ RxRecord
    \/ RxBlockEnd
    \/ RxEvent
    \/ DispGet
    \/ FireHandler
    \/ DispDone
    \/ DispExit
    \/ CbOnClose

SpecEv == InitEv /\ [][NextEv]_vars

\* the dispatcher is a thread of its own, which the scheduler lets run; the
\* handlers it calls return
DispStep == DispGet \/ FireHandler \/ DispDone \/ DispExit

SpecEvFair == SpecEv /\ WF_vars(DispStep)

\* ------------------------------------------- specification SpecOrd
\* The way of an event from the transport to the handlers, over several
\* frames: a subscription is registered, handlers come and go, the server
\* sends frames that hold only events, the dispatcher fires them.
InitOrd == InitSub

NextOrd ==
    \/ \E s \in DOMAIN lst, kind \in {"ok", "raise"} : AddHandler(s, kind, OrdMaxHandlers)
    \/ \E s \in DOMAIN lst, n \in 1..OrdMaxHandlers : RemoveHandler(s, n)
    \/ \E es \in EventSeqs(OrdMaxEvents) \ {<<>>} : ReceiveFrame(<<>>, es, OrdMaxFrames)
    \/ RxEvent
    \/ DispGet
    \/ FireHandler
    \/ DispDone

SpecOrd == InitOrd /\ [][NextOrd]_vars

\* ------------------------------------------- specification SpecIso
\* A handler is on the dispatcher thread, one that returns at some time or one
\* that calls dp_get of the client, while another caller calls dp_get and the
\* server sends replies and further events, one reply per frame.
InitIso == InitSub

NextIso ==
    \/ \E s \in DOMAIN lst, kind \in {"ok", "get"} : AddHandler(s, kind, IsoMaxHandlers)
    \/ StartFresh("c1", "dp_get", "ok", IsoMaxOps)
    \/ HandlerCall(IsoMaxOps)
    \/ \E c \in {"c1", DispThread} : SendReady(c)
    \/ \E c \in {"c1", DispThread} : Xmit(c)
    \/ \E c \in {"c1", DispThread} : TakeSteps(c)
    \/ Return("c1")
    \/ \E p \in FrameSeqs(wire, 1, IsoMaxEvents) : ReceiveFrame(p[1], p[2], IsoMaxFrames)
    \/ RxRecord
    \/ RxBlockEnd
    \/ RxEvent
    \/ DispGet
    \/ FireHandler
    \/ FireCall
    \/ FireCallEnd
    \/ DispDone

SpecIso == InitIso /\ [][NextIso]_vars

\* ------------------------------------------- specification SpecLife
\* The connection from the moment DMSClient.__init__ has started the websocket
\* thread: the transport's callbacks run on that thread while the constructor
\* still has to assign _subES_disp_thread; the caller has the client, and
\* calls dp_get on it, once the constructor has returned.
InitLife ==
    /\ pending = [t \in {} |-> 0]
    /\ cont = <<>>
    /\ registry = [t \in {} |-> 0]
    /\ subs = {}
    /\ call = [c \in Threads |-> Idle]
    /\ nOps = 0
    /\ rx = RxIdle
    /\ curr = Cleared
    /\ nFrames = 0
    /\ pureLog = <<>>
    /\ wire = {}
    /\ conn = "connecting"
    /\ ready = FALSE
    /\ lst = [t \in {} |-> <<>>]
    /\ evq = <<>>
    /\ disp = [DispCreated EXCEPT !.st = "absent"]
    /\ fired = <<>>
    /\ ws = WsNew
    /\ enc = EncIdle
    /\ lk = LkInit

\* __init__, last statement: self._subES_disp_thread = _SubscriptionES_Dispatcher(..)
CtorFinish ==
    /\ disp.st = "absent"
    /\ disp' = [disp EXCEPT !.st = "created"]
    /\ UNCHANGED <<pending, cont, registry, subs, call, nOps, rx, curr, nFrames,
                   pureLog, wire, conn, ready, lst, evq, fired>>
    /\ UNCHANGED <<ws, enc, lk>>

\* the caller holds the client: __init__ has returned
Constructed == disp.st # "absent"

NextLife ==
    \/ CtorFinish
    \/ CbOnOpen
    \/ CbOnClose
    \/ Constructed /\ StartFresh("c1", "dp_get", "ok", LifeMaxOps)
    \/ SendSteps("c1")
    \/ TakeSteps("c1")
    \/ Return("c1")
    \/ \E s \in ReplySeqs(wire, 1) : Receive(s, LifeMaxFrames)
    \/ RxRecord
    \/ RxBlockEnd

SpecLife == InitLife /\ [][NextLife]_vars

\* ------------------------------------------- specification SpecScope
\* "with DMSClient(..) as client:": the caller enters the scoped context, uses
\* the client inside it and leaves it; afterwards the object is destroyed.
\* What the websocket library does once keep_running is False is not part of
\* this module; its callbacks come as they do in the other specifications.

\* __enter__: return self
EnterResult(self) == self

ScopeEnter ==
    /\ ws.scope = "out"
    /\ ws' = [ws EXCEPT !.scope = "in", !.ctx = EnterResult(Facade)]
    /\ UNCHANGED <<pending, cont, registry, subs, call, nOps, rx, curr, nFrames,
                   pureLog, wire, conn, ready, lst, evq, disp, fired>>
    /\ UNCHANGED <<enc, lk>>

\* __exit__: _exit_ws_thread() (self._ws.keep_running = False), then
\* _exit_subAE_thread() (keep_running = False on the dispatcher), then the
\* logging of an exception that left the block
ScopeExit ==
    /\ ws.scope = "in"
    /\ call["c1"].pc = "idle"
    /\ ws' = [ws EXCEPT !.scope = "left", !.keep = FALSE]
    /\ disp' = [disp EXCEPT !.keep = FALSE]
    /\ UNCHANGED <<pending, cont, registry, subs, call, nOps, rx, curr, nFrames,
                   pureLog, wire, conn, ready, lst, evq, fired>>
    /\ UNCHANGED <<enc, lk>>

\* __del__: self._ws.close(), time.sleep(1), _exit_ws_thread()
Del ==
    /\ ws.scope = "left"
    /\ ws.closes = 0
    /\ ws' = [ws EXCEPT !.closes = 1, !.keep = FALSE]
    /\ UNCHANGED <<pending, cont, registry, subs, call, nOps, rx, curr, nFrames,
                   pureLog, wire, conn, ready, lst, evq, disp, fired>>
    /\ UNCHANGED <<enc, lk>>

NextScope ==
    \/ ScopeEnter
    \/ ScopeExit
    \/ Del
    \/ CbOnOpen
    \/ CbOnClose
    \/ ws.scope = "in" /\ StartFresh("c1", "dp_get", "ok", ScopeMaxOps)
    \/ SendSteps("c1")
    \/ TakeSteps("c1")
    \/ Return("c1")
    \/ \E s \in ReplySeqs(wire, 1) : Receive(s, ScopeMaxFrames)
    \/ RxRecord
    \/ RxBlockEnd
    \/ DispExit

SpecScope == Init /\ [][NextScope]_vars

\* ------------------------------------------- specification SpecGroups
\* Two callers of changelog_GetGroups, the command that has no tag of its own
\* on the wire, on a fresh connection; the server echoes the helper map or
\* leaves it out.
NextGroups ==
    \/ \E c \in Callers, kw \in {"ok", "bad"} :
          StartFresh(c, "changelog_GetGroups", kw, GrpMaxOps)
    \/ \E c \in Callers : SendSteps(c)
    \/ \E c \in Callers : TakeSteps(c)
    \/ \E c \in Callers : Return(c)
    \/ \E s \in ReplySeqs(wire, GrpMaxRecs) : Receive(s, GrpMaxFrames)
    \/ RxRecord
    \/ RxStoreOther
    \/ RxBlockEnd
    \/ CbOnOpen
    \/ CbOnClose

SpecGroups == Init /\ [][NextGroups]_vars

\* ------------------------------------------- specification SpecLock
\* The "with <lock>:" blocks of _MessageHandler, step by step: a thread comes
\* to a block, waits for the block's lock, runs the block's statement and
\* leaves the block, which releases the lock (also when the statement raised
\* KeyError).  The callers come to their blocks and the websocket thread to
\* those of handle() in any order and for any key.
LkKeys == {TagNames[k] : k \in 1..LockMaxKeys}

\* the thread reaches "with <lock>:"
LkWant(t, site, key) ==
    /\ lk.th[t].pc = "out"
    /\ site \in (IF t = WsThread THEN WsSites ELSE CallerSites)
    /\ site = "prepare_tag" => Len(cont) < LockMaxOps
    /\ lk' = [lk EXCEPT !.th[t] = [pc |-> "want", site |-> site,
                                    lock |-> SiteLock(site), key |-> key]]
    /\ UNCHANGED <<pending, cont, registry, subs, call, nOps, rx, curr, nFrames,
                   pureLog, wire, conn, ready, lst, evq, disp, fired, ws, enc>>

\* threading.Lock.acquire(): the thread gets the lock once nobody holds it
LkAcquire(t) ==
    /\ lk.th[t].pc = "want"
    /\ LET l == lk.th[t].lock
       IN IF l = "none" THEN lk' = [lk EXCEPT !.th[t].pc = "in"]
          ELSE /\ lk[l] = "free"
               /\ lk' = [lk EXCEPT ![l] = t, !.th[t].pc = "in"]
    /\ UNCHANGED <<pending, cont, registry, subs, call, nOps, rx, curr, nFrames,
                   pureLog, wire, conn, ready, lst, evq, disp, fired, ws, enc>>

\* the statement inside the block
LkBody(t) ==
    /\ lk.th[t].pc = "in"
    /\ lk' = [lk EXCEPT !.th[t].pc = "done"]
    /\ LET site == lk.th[t].site
           key == lk.th[t].key
       IN /\ IF site = "prepare_tag"
             THEN /\ pending' = PrepareTagDict(key)
                  /\ cont' = Append(cont, NewContainer(key, TRUE))
             ELSE IF site = "pop" /\ key \in DOMAIN pending
             THEN /\ pending' = PopDict(key)
                  /\ cont' = [cont EXCEPT ![pending[key]].taken = @ + 1]
             ELSE IF site = "store" /\ key \in DOMAIN pending
             THEN /\ cont' = Complete(pending[key], curr.resp_list)
                  /\ UNCHANGED pending
             ELSE UNCHANGED <<pending, cont>>
          /\ IF site = "add_subscription"
             THEN registry' = DictSet(registry, key, [by |-> key])
             ELSE IF site = "del_subscription" /\ key \in DOMAIN registry
             THEN registry' = DictDel(registry, key)
             ELSE UNCHANGED registry
    /\ UNCHANGED <<subs, call, nOps, rx, curr, nFrames, pureLog, wire, conn, ready,
                   lst, evq, disp, fired, ws, enc>>

\* the end of the block: threading.Lock.release()
LkRelease(t) ==
    /\ lk.th[t].pc = "done"
    /\ LET l == lk.th[t].lock
       IN IF l = "none" THEN lk' = [lk EXCEPT !.th[t] = LkOut]
          ELSE lk' = [lk EXCEPT ![l] = "free", !.th[t] = LkOut]
    /\ UNCHANGED <<pending, cont, registry, subs, call, nOps, rx, curr, nFrames,
                   pureLog, wire, conn, ready, lst, evq, disp, fired, ws, enc>>

NextLock ==
    \/ \E t \in LkThreads, site \in CallerSites \cup WsSites, key \in LkKeys :
          LkWant(t, site, key)
    \/ \E t \in LkThreads : LkAcquire(t)
    \/ \E t \in LkThreads : LkBody(t)
    \/ \E t \in LkThreads : LkRelease(t)

SpecLock == Init /\ [][NextLock]_vars

\* ------------------------------------------- specification SpecWarn
\* The dispatcher behind a fast server: a subscription with one handler, the
\* server sends frames of events for it, the dispatcher fires them one by
\* one and checks the queue size after each; the mark is WarnMark.
InitWarn == InitSub

NextWarn ==
    \/ \E s \in DOMAIN lst : AddHandler(s, "ok", 1)
    \/ \E n \in 1..WarnMaxEvents : ReceiveFrame(<<>>, [k \in 1..n |-> "t1"], WarnMaxFrames)
    \/ RxEvent
    \/ DispGet
    \/ FireHandler
    \/ DispDoneAt(WarnMark)

SpecWarn == InitWarn /\ [][NextWarn]_vars

\* ------------------------------------------- specification SpecBlocks
\* Frames with more than one verb block: the callers send get and set
\* commands, and the server answers them, with or without tag, alone or
\* batched in one frame, where handle() walks the get block before the set
\* block.
NextBlocks ==
    \/ \E c \in Callers, op \in {"dp_get", "dp_set"} : StartFresh(c, op, "ok", BlkMaxOps)
    \/ \E c \in Callers : SendSteps(c)
    \/ \E c \in Callers : TakeSteps(c)
    \/ \E c \in Callers : Return(c)
    \/ \E s \in ReplySeqs(wire, BlkMaxRecs) : Receive(s, BlkMaxFrames)
    \/ RxRecord
    \/ RxStoreOther
    \/ RxBlockEnd
    \/ CbOnOpen

SpecBlocks == Init /\ [][NextBlocks]_vars

\* ------------------------------------------- specification SpecEnc
\* The encoder alone: dp_get with a showExtInfos option and subscribe with an
\* event option, for integers inside and outside the legal ranges, strings,
\* lists, no option at all and an option the command does not know.
EncValues(verb) ==
    {IntVal(n) : n \in 0..(IF verb = "get" THEN EncMaxInfo ELSE EncMaxEvent)}
        \cup {StrVal("abc"), ListVal(<<"state", "unit">>), ListVal(<<"onSet">>), NoVal}

NextEnc ==
    \/ \E verb \in EncVerbs, opt \in {"showExtInfos", "event", "unknown"} :
          \E val \in EncValues(verb) : EncCall(verb, opt, val)
    \/ EncSend
    \/ EncReturn

SpecEnc == Init /\ [][NextEnc]_vars

\* ================================================================ claims
InTake(c) == call[c].pc \in {"spin", "getev", "wait", "pop"}
Returned(c) == call[c].pc \in {"post", "done"}
Ended(c) == call[c].pc \in {"done", "raised"}
Slots == 1..Len(cont)

\* C1 (as claimed): the list a caller obtains from _busy_wait_for_response on
\* tag T holds only replies carrying T.
C1_Correlation ==
    \A c \in Callers :
        Returned(c) => \A n \in 1..Len(call[c].res) : call[c].res[n].tag = call[c].tag

\* C2 (as claimed): when an operation hands its envelope to the transport's
\* send, the command's tag has an empty slot in the pending-response table.
C2_ReservePrecedesSend ==
    \A c \in Callers :
        call[c].pc = "xmit" =>
            /\ call[c].tag \in DOMAIN pending
            /\ ~cont[pending[call[c].tag]].avail
            /\ cont[pending[call[c].tag]].list = <<>>

\* C3: when a frame is the answer to one get command, k records carrying its
\* tag, the list dp_get returns from that frame is exactly those k records in
\* wire order.
C3_Grouping ==
    \A c \in Callers :
        (/\ call[c].op = "dp_get"
         /\ call[c].pc = "done"
         /\ call[c].res # <<>>
         /\ pureLog[call[c].res[1].fr][1] = call[c].tag)
        => /\ Len(call[c].res) = pureLog[call[c].res[1].fr][2]
           /\ \A n \in 1..Len(call[c].res) :
                /\ call[c].res[n].tag = call[c].tag
                /\ call[c].res[n].fr = call[c].res[1].fr
                /\ call[c].res[n].i = n

C3_Witness ==
    \E c \in Callers :
        /\ call[c].op = "dp_get"
        /\ call[c].pc = "done"
        /\ Len(call[c].res) >= 2
        /\ pureLog[call[c].res[1].fr] = <<call[c].tag, Len(call[c].res)>>

\* C4 (as claimed): prepare_tag never inserts a slot under a tag that already
\* has a slot in the pending-response table.
C4_TagUniqueness ==
    [][\A t \in DOMAIN pending : t \in DOMAIN pending' => pending'[t] = pending[t]]_vars

\* C5: the list of a slot is returned by at most one take, and the take that
\* returns it has removed the slot from the pending-response table.
C5_ConsumedOnce ==
    /\ \A k \in Slots :
        /\ cont[k].taken <= 1
        /\ cont[k].taken = 1 => \A t \in DOMAIN pending : pending[t] # k
    /\ \A c \in Callers :
        Returned(c) => /\ cont[call[c].got].taken = 1
                       /\ \A d \in Callers \ {c} : Returned(d) => call[d].got # call[c].got

\* two callers waited on the same completed slot: one has its list, the other
\* found the slot gone
C5_Witness ==
    \E c, d \in Callers :
        /\ c # d
        /\ Returned(c)
        /\ call[d].ev = call[c].got
        /\ call[d].pc = "raised"
        /\ call[d].err = "KeyError"

\* C6 (as claimed): a slot's list and ready-signal change only when a list of
\* replies carrying the slot's own tag is attached to it; a reply whose tag
\* has no slot changes no other slot.
C6_CompleteOrDiscard ==
    [][\A k \in Slots :
          (cont'[k].avail # cont[k].avail \/ cont'[k].list # cont[k].list)
          => /\ cont'[k].avail
             /\ cont'[k].list # <<>>
             /\ \A n \in 1..Len(cont'[k].list) : cont'[k].list[n].tag = cont[k].tag]_vars

\* C7 (as claimed): every call of _busy_wait_for_response eventually returns
\* or raises.
C7_TakeBounded == \A c \in Callers : InTake(c) ~> ~InTake(c)

\* C8 (as claimed): the slot of a take that timed out stays in the
\* pending-response table for the rest of the connection.
C8_LeakedSlotStays ==
    [][\A t \in DOMAIN pending :
          cont[pending[t]].leaked => t \in DOMAIN pending' /\ pending'[t] = pending[t]]_vars

\* C9 (as claimed): when an operation that reserved a tag has ended, its slot
\* was consumed by a take, or its take timed out, or the connection is closed.
C9_ReservedTagOutcome ==
    \A c \in Callers :
        (Ended(c) /\ call[c].mine # 0)
        => \/ cont[call[c].mine].taken = 1
           \/ call[c].err = "Timeout"
           \/ conn = "closed"

C11_SubscribeIffOk ==
    [][/\ \A c \in Callers :
            (call[c].op = "get_dp_subscription" /\ call[c].pc = "post")
            => /\ <<"subscribe", call[c].tag>> \in wire
               /\ call'[c] # call[c] =>
                    IF call[c].res # <<>> /\ call[c].res[1].code = "ok"
                    THEN /\ call'[c].pc = "done"
                         /\ DOMAIN registry' = DOMAIN registry \cup {call[c].res[1].tag}
                         /\ call[c].res[1].tag \in subs'
                    ELSE /\ call'[c].pc = "raised"
                         /\ registry' = registry
                         /\ subs' = subs
       /\ (DOMAIN registry' \ DOMAIN registry # {}) =>
            \E c \in Callers : /\ call[c].op = "get_dp_subscription"
                                /\ call[c].pc = "post"
                                /\ call'[c].pc = "done"]_vars

\* one get_dp_subscription was refused by the server, another one registered
C11_Witness ==
    /\ \E c \in Callers : /\ call[c].op = "get_dp_subscription"
                          /\ call[c].pc = "raised"
                          /\ call[c].err = "NotOk"
    /\ DOMAIN registry # {}

\* C12: no step of update() changes the registry or the set of subscription
\* objects; the command update() hands to the transport is a subscribe command
\* with the tag of the subscription it was called on; update(path=..) and
\* update(tag=..) raise with no slot reserved and nothing sent.
C12_UpdateKeepsIdentity ==
    [][\A c \in Callers :
          ((call[c].op = "update" \/ call'[c].op = "update") /\ call'[c] # call[c])
          => /\ registry' = registry
             /\ subs' = subs
             /\ lst' = lst
             /\ call'[c].op = "update" => call'[c].tag \in subs
             /\ (call[c].pc = "xmit" /\ call'[c].pc = "spin")
                  => <<"subscribe", call[c].tag>> \in wire'
             /\ call'[c].err = "AssertionError"
                  => /\ pending' = pending
                     /\ cont' = cont
                     /\ wire' = wire
                     /\ call'[c].mine = 0]_vars

\* one update(path=..) was rejected, one update() has returned
C12_Witness ==
    \E c, d \in Callers :
        /\ call[c].op = "update" /\ call[c].err = "AssertionError"
        /\ call[d].op = "update" /\ call[d].pc = "done"

C14_NoFireAfterUnsubscribe == \A n \in 1..Len(fired) : ~fired[n].late

\* C15: for an event record, handle() appends (subscription, event) to the
\* queue if the event's tag is a registry key and the subscription has a
\* handler, and leaves the queue as it is otherwise; the step changes neither
\* the registry nor the pending-response table and goes on to the next event
\* record; handle() returns only after the frame's last event record, and
\* nothing else puts anything on the queue.
C15_EventRouting ==
    [][/\ (rx.phase = "event" /\ rx' # rx) =>
            LET e == rx.evs[rx.i]
            IN /\ evq' = IF e.tag \in DOMAIN registry /\ lst[e.tag] # <<>>
                         THEN Append(evq, [sub |-> e.tag, ev |-> e])
                         ELSE evq
               /\ registry' = registry
               /\ pending' = pending
               /\ cont' = cont
               /\ rx.i < Len(rx.evs) => rx'.phase = "event" /\ rx'.i = rx.i + 1
       /\ Len(evq') > Len(evq) => rx.phase = "event"
       /\ (rx.phase # "idle" /\ rx'.phase = "idle") =>
            \/ rx.evs = <<>>
            \/ rx.phase = "event" /\ rx.i = Len(rx.evs)]_vars

\* the first event of the frame had no subscription and was dropped; handle()
\* is at the second one, which goes to the queue
C15_Witness ==
    /\ rx.phase = "event"
    /\ rx.i = 2
    /\ rx.evs[1].tag = ForeignTag
    /\ rx.evs[2].tag \in DOMAIN registry
    /\ lst[rx.evs[2].tag] # <<>>

\* position of an invocation: frame, place of the event in the frame, place of
\* the handler in the subscription's handler list
Earlier(a, b) ==
    \/ a.ev.fr < b.ev.fr
    \/ a.ev.fr = b.ev.fr /\ a.ev.i < b.ev.i
    \/ a.ev = b.ev /\ a.h < b.h

\* C16: the handlers of a subscription are called for its events in the order
\* in which the transport delivered the events, frame after frame and record
\* after record within a frame, and no event is fired twice: the log of
\* invocations is strictly increasing in (frame, record, handler).
C16_EventOrder ==
    \A n, m \in 1..Len(fired) :
        (n < m /\ fired[n].sub = fired[m].sub) => Earlier(fired[n], fired[m])

\* three events of one subscription have been fired: two of one frame and one
\* of the next frame
C16_Witness ==
    \E a, b, c \in 1..Len(fired) :
        /\ a < b /\ b < c
        /\ fired[a].ev.fr = fired[b].ev.fr
        /\ fired[a].ev.i # fired[b].ev.i
        /\ fired[c].ev.fr # fired[a].ev.fr
        /\ fired[a].sub = fired[b].sub /\ fired[b].sub = fired[c].sub

\* C17: the receive path neither waits for the dispatcher nor runs handler
\* code: inside a frame handle() can always take its next step, whatever the
\* dispatcher is doing, and no step of handle() or of a caller other than the
\* dispatcher changes the dispatcher's position or the log of invocations.
C17_DispatcherIsolation ==
    /\ [](rx.phase # "idle" => ENABLED RxStep)
    /\ [][(rx' # rx \/ call'["c1"] # call["c1"]) => (disp' = disp /\ fired' = fired)]_vars

\* a handler is still on the dispatcher thread, inside the dp_get it called,
\* which has returned its reply; a dp_get of another caller that began after
\* the handler's has returned its reply as well
C17_Witness ==
    /\ disp.pc = "incall"
    /\ call[DispThread].pc = "done"
    /\ call[DispThread].res # <<>>
    /\ call[DispThread].res[1].tag = call[DispThread].tag
    /\ call["c1"].pc = "done"
    /\ call["c1"].res # <<>>
    /\ call["c1"].res[1].tag = call["c1"].tag
    /\ call["c1"].mine > call[DispThread].mine
    /\ call["c1"].res[1].fr > disp.ev.fr

\* C18: when a handler raises, the dispatcher goes on with the next handler of
\* the same event; the firing of an event ends only when every handler that
\* was attached when it began has been called, in order, and then the worker
\* is running and polls the queue again.
C18_FaultIsolation ==
    [][/\ (fired' # fired /\ ~fired'[Len(fired')].ok) =>
            /\ disp'.st = "running"
            /\ disp'.pc = "fire"
            /\ disp'.k = disp.k + 1
            /\ disp'.hs = disp.hs
            /\ disp'.ev = disp.ev
       /\ (disp.pc = "fire" /\ disp'.pc # "fire") =>
            /\ disp'.st = "running"
            /\ disp'.pc = "poll"
            /\ disp'.keep = disp.keep
            /\ Len(fired) >= Len(disp.hs)
            /\ \A j \in 1..Len(disp.hs) :
                  LET f == fired[Len(fired) - Len(disp.hs) + j]
                  IN f.ev = disp.ev /\ f.h = j /\ f.kind = disp.hs[j]]_vars

\* the first handler raised, the second one was called for the same event,
\* and a handler was called for the next event
C18_Witness ==
    \E n \in 1..Len(fired) :
        /\ n + 2 <= Len(fired)
        /\ ~fired[n].ok
        /\ fired[n].h = 1
        /\ fired[n + 1].ev = fired[n].ev
        /\ fired[n + 1].h = 2
        /\ fired[n + 2].ev # fired[n].ev

\* the message of the operation a caller is in
Msg(c) == <<OpVerb[call[c].op], call[c].tag>>

\* C19: _send_message calls the transport's send only after it has seen the
\* ready-to-send signal set; a message reaches the transport only through
\* that call; when the signal is not set the caller gets IOError, and the
\* message of an operation that ended with IOError is not on the transport.
C19_SendGating ==
    /\ [](\A c \in Callers : call[c].err = "IOError" => Msg(c) \notin wire)
    /\ [][(\A c \in Callers :
              /\ (call[c].pc # "xmit" /\ call'[c].pc = "xmit") =>
                      (call[c].pc = "send" /\ ready)
              /\ (call[c].err # "IOError" /\ call'[c].err = "IOError") =>
                      (call[c].pc = "send" /\ ~ready /\ wire' = wire))
           /\ (wire' # wire =>
                  \E c \in Callers : call[c].pc = "xmit" /\ wire' = wire \cup {Msg(c)})]_vars

\* one caller's message is on the transport, sent while the signal was set;
\* the other caller found the signal clear and has IOError
C19_Witness ==
    /\ call["c1"].pc = "raised"
    /\ call["c1"].err = "IOError"
    /\ call["c2"].pc \in {"spin", "getev", "wait"}
    /\ Msg("c2") \in wire
    /\ Msg("c1") \notin wire

\* C20 (as claimed): the ready-to-send signal is set exactly when the last of
\* the transport's open and close callbacks was the open callback.
C20_ReadyLifecycle == ready <=> conn = "open"

\* C21 (as claimed): the close callback signals every take that is blocked:
\* once it has run, no caller waits on a slot whose event is not set.
C21_CloseFailsWaiters ==
    conn = "closed" =>
        \A c \in Callers : call[c].pc = "wait" => cont[call[c].ev].avail

\* C22 (as claimed): after the close callback has run the subscription
\* registry is empty.
C22_CloseDropsSubscriptions == conn = "closed" => DOMAIN registry = {}

C24_ScopedTeardown ==
    /\ [](ws.scope = "in" => ws.ctx = Facade)
    /\ [][(ws.scope = "in" /\ ws'.scope = "left") =>
              (~disp'.keep /\ ~ws'.keep /\ ws'.closes > ws.closes)]_vars

\* C25: the record of a changelog_GetGroups command has no tag on the wire and
\* the envelope's tag is the helper map {changelogGetGroups: [t]}, t the tag
\* reserved for the command; when handle() comes to the end of a frame that
\* answers this one command and echoes the map, the slot of t is completed
\* with the frame's replies, which now carry t; and the list the caller's take
\* returns from such a frame is made of the frame's replies, each with tag t.
C25_TaglessCorrelation ==
    /\ [](\A c \in Callers :
            /\ (call[c].op = "changelog_GetGroups" /\ Msg(c) \in wire) =>
                  /\ CmdAsDict(Msg(c)[1], call[c].tag).tag = NoTag
                  /\ RequestTag(Msg(c)[1], call[c].tag) =
                         [v \in {"changelogGetGroups"} |-> <<call[c].tag>>]
            /\ (/\ call[c].op = "changelog_GetGroups"
                /\ call[c].pc = "done"
                /\ call[c].res # <<>>
                /\ pureLog[call[c].res[1].fr][1] = call[c].tag)
               => \A n \in 1..Len(call[c].res) :
                     /\ call[c].res[n].tag = call[c].tag
                     /\ call[c].res[n].fr = call[c].res[1].fr
                     /\ call[c].res[n].i = n)
    /\ [][(/\ rx.phase # "idle"
            /\ rx'.phase = "idle"
            /\ pureLog[nFrames][1] \in DOMAIN pending)
           => LET k == pending[pureLog[nFrames][1]]
              IN /\ cont'[k].avail
                 /\ Len(cont'[k].list) = pureLog[nFrames][2]
                 /\ \A n \in 1..Len(cont'[k].list) :
                       /\ cont'[k].list[n].tag = pureLog[nFrames][1]
                       /\ cont'[k].list[n].cls = "changelogGetGroups"
                       /\ cont'[k].list[n].fr = nFrames]_vars

\* changelog_GetGroups has returned the reply of a frame that echoed its map
C25_Witness ==
    \E c \in Callers :
        /\ call[c].op = "changelog_GetGroups"
        /\ call[c].pc = "done"
        /\ Len(call[c].res) = 1
        /\ call[c].res[1].cls = "changelogGetGroups"
        /\ call[c].res[1].tag = call[c].tag
        /\ pureLog[call[c].res[1].fr] = <<call[c].tag, 1>>

\* what the caller passed is a legal value of the option: an integer in the
\* option's range or a list of names for showExtInfos, an integer in the
\* option's range or a string for event
LegalOption(verb, opt, val) ==
    /\ opt = OptOf[verb]
    /\ \/ val.kind = "absent"
       \/ val.kind = "int" /\ val.n >= 1 /\ val.n <= (IF verb = "get" THEN 127 ELSE 31)
       \/ val.kind = "list" /\ verb = "get"
       \/ val.kind = "str" /\ verb = "subscribe"

\* C26 (as claimed): a call with an unknown option, an option of the wrong
\* type or a bitmask out of range raises, and its command is not sent.
C26_EncodingErrorsRaise ==
    enc.st \in {"built", "sent"} => LegalOption(enc.verb, enc.opt, enc.val)

\* the event tokens and the attribute names as the specification lists them
SpecEventTokens == <<"onChange", "onSet", "onCreate", "onRename", "onDelete">>
SpecInfoNames ==
    <<"state", "accType", "name", "template", "unit", "comment", "changelogGroup">>

RECURSIVE Pow2(_)
Pow2(k) == IF k = 0 THEN 1 ELSE 2 * Pow2(k - 1)

\* the names of list l whose bit (position k has value 2^(k-1)) is set in n
BitNames(l, n) ==
    LET idx == SelectSeq([k \in 1..Len(l) |-> k], LAMBDA k : (n \div Pow2(k - 1)) % 2 = 1)
    IN [j \in 1..Len(idx) |-> l[idx[j]]]

\* C27 (as claimed): subscribe with an integer event e in 1..31 carries "*"
\* when e = 31, and otherwise the comma-joined tokens of the bits set in e,
\* with 1 onChange, 2 onSet, 4 onCreate, 8 onRename, 16 onDelete.
C27_EventBitmask ==
    (enc.st \in {"built", "sent"} /\ enc.verb = "subscribe" /\ enc.val.kind = "int"
        /\ enc.val.n >= 1 /\ enc.val.n <= 31)
    => enc.field = (IF enc.val.n = 31 THEN <<"*">>
                    ELSE Join(BitNames(SpecEventTokens, enc.val.n)))

\* C28 (as claimed): dp_get with an integer showExtInfos m in 1..127 carries
\* the names of the bits set in m, in the order state .. changelogGroup, and
\* a list of names given instead of an integer is carried as given.
C28_ShowExtInfosEncoding ==
    /\ (enc.st \in {"built", "sent"} /\ enc.verb = "get" /\ enc.val.kind = "int"
           /\ enc.val.n >= 1 /\ enc.val.n <= 127)
       => enc.field = BitNames(SpecInfoNames, enc.val.n)
    /\ (enc.st # "idle" /\ enc.verb = "get" /\ enc.opt = "showExtInfos"
           /\ enc.val.kind = "list")
       => (enc.err = "none" /\ enc.field = enc.val.names)

\* C29 (as claimed): a subscribe call that gives only a path (no event, no
\* query) is encoded without an event field and goes on to be sent and
\* awaited: encoding it raises nothing.  In the model the only subscribe
\* call that can end with AttributeError is the one without an event option.
C29_PathOnlySubscribe ==
    \A c \in Callers :
        (call[c].op = "get_dp_subscription" /\ call[c].pc = "raised")
            => call[c].err # "AttributeError"

\* the records of one verb block that carry tag t, in block order
OfTag(recs, t) == SelectSeq(recs, LAMBDA r : r.tag = t)

\* every record of the block carries a tag, and the records of one tag stand
\* next to each other (A, A, B; not A, B, A)
Grouped(recs) ==
    /\ \A n \in 1..Len(recs) : recs[n].tag # NoTag
    /\ \A i, j, k \in 1..Len(recs) :
          (i < j /\ j < k /\ recs[i].tag = recs[k].tag) => recs[j].tag = recs[i].tag

\* C30 (as claimed): when handle() has walked a verb block, every tag of the
\* block that has a waiter's slot has, in that slot, exactly the block's
\* records of that tag, in order, and the slot is signalled: of the block
\* A, A, B the waiter of A gets [A, A] and the waiter of B gets [B].
C30_GroupingByTag ==
    [][(rx.phase = "end" /\ rx' # rx /\ Grouped(rx.frame[rx.b].recs))
         => \A t \in DOMAIN pending :
                OfTag(rx.frame[rx.b].recs, t) # <<>>
                  => /\ cont'[pending[t]].avail
                     /\ cont'[pending[t]].list = OfTag(rx.frame[rx.b].recs, t)]_vars

\* the verb block handle() is in holds only records without a tag
UntaggedBlock == \A n \in 1..Len(rx.frame[rx.b].recs) : rx.frame[rx.b].recs[n].tag = NoTag

\* C31 (as claimed): the step of handle() that passes a reply record without a tag, and
\* the step that finishes a verb block holding only such records, change no
\* container: no response list, no isAvailable.
C31_UntaggedDiscarded ==
    [][/\ ((rx.phase = "rec" /\ rx' # rx /\ rx.frame[rx.b].recs[rx.i].tag = NoTag)
              => cont' = cont)
       /\ ((rx.phase = "end" /\ rx' # rx /\ UntaggedBlock) => cont' = cont)]_vars

\* the step is the queue-size check that follows a firing
QueueCheck == disp.pc = "fire" /\ disp'.pc = "poll"

\* C32: the queue-size warning is edge-triggered.  A warning is logged only
\* by a check that is armed and sees more than WarnMark pairs waiting, and
\* that check disarms; every armed check that sees more than WarnMark pairs
\* logs a warning; a disarmed check logs none and arms again only when fewer
\* than WarnMark pairs are waiting.
C32_WarningEdgeTriggered ==
    [][/\ (disp'.warned # disp.warned)
            => (QueueCheck /\ disp.warn /\ Len(evq) > WarnMark /\ ~disp'.warn
                  /\ disp'.warned = disp.warned + 1)
       /\ (QueueCheck /\ disp.warn /\ Len(evq) > WarnMark)
            => disp'.warned = disp.warned + 1
       /\ (~disp.warn /\ disp'.warn) => (QueueCheck /\ Len(evq) < WarnMark)]_vars

\* two warnings were logged: the queue was above the mark, fell below it and
\* rose above it again
C32_Witness == disp.warned = 2 /\ ~disp.warn /\ Len(evq) > WarnMark

\* the threads inside a "with <lock>:" block that works on table tab
Inside(tab) ==
    {t \in LkThreads : lk.th[t].pc \in {"in", "done"} /\ SiteTable(lk.th[t].site) = tab}

\* C33: at any time at most one thread is inside a block that works on the
\* pending-response table, and at most one inside a block that works on the
\* subscription registry; a step that inserts into, completes a container of
\* or removes from the pending-response table is taken by the thread that
\* holds _pending_response_lock, and a step that inserts into or removes
\* from the registry by the thread that holds _subscriptionES_objs_lock.
C33_TableMutationSerialized ==
    /\ [](Cardinality(Inside("pend")) <= 1 /\ Cardinality(Inside("reg")) <= 1)
    /\ [][((pending' # pending \/ cont' # cont)
             => \E t \in LkThreads : lk.pend = t /\ lk.th[t].pc = "in")
          /\ ((registry' # registry)
             => \E t \in LkThreads : lk.reg = t /\ lk.th[t].pc = "in")]_vars

\* handle() is inside its block and has completed a container that a caller
\* inserted, while a caller waits for the lock to remove it
C33_Witness ==
    /\ lk.th[WsThread].pc = "done"
    /\ lk.th[WsThread].site = "store"
    /\ lk.th[WsThread].key \in DOMAIN pending
    /\ cont[pending[lk.th[WsThread].key]].avail
    /\ \E c \in Callers :
          lk.th[c].pc = "want" /\ lk.th[c].site = "pop"
            /\ lk.th[c].key = lk.th[WsThread].key

\* the errors that end a public operation before its envelope is handed to
\* the transport: the constructor's, as_dict's, _send_message's
PreSendErrors == {"ValueError", "AttributeError", "IOError"}

\* C34 (as claimed): a public operation that has ended with one of these
\* errors has left no slot behind: the container its prepare_tag() created
\* is not in the pending-response table.
C34_FailureLeavesNoSlot ==
    \A c \in Callers :
        (call[c].pc = "raised" /\ call[c].err \in PreSendErrors)
            => \A t \in DOMAIN pending : pending[t] # call[c].mine

\* the number of containers popped so far by _busy_wait_for_response
RECURSIVE TakenUpTo(_)
TakenUpTo(k) == IF k = 0 THEN 0 ELSE cont[k].taken + TakenUpTo(k - 1)

\* no public operation is under way, and every operation that was started
\* has popped a container: none raised before or inside its take
AllReturned ==
    /\ \A c \in Callers : call[c].pc = "idle"
    /\ TakenUpTo(Len(cont)) = nOps

\* C35: quiescence.  When every public operation that was started has taken
\* its reply and returned, the pending-response table is empty.
C35_Quiescence == AllReturned => DOMAIN pending = {}

\* two operations were under way at the same time (the second tag was
\* reserved before the first reply came), both have returned
C35_Witness ==
    /\ AllReturned
    /\ nOps >= 2
    /\ Len(cont) >= 2
    /\ cont[1].list # <<>> /\ cont[2].list # <<>>
    /\ cont[1].list[1].fr >= 1 /\ cont[2].list[1].fr > cont[1].list[1].fr
    /\ DOMAIN pending = {}

\* a verb block after the one handle() is in holds a reply whose tag has a
\* slot in the pending-response table
WaiterInLaterBlock ==
    \E b \in (rx.b + 1)..Len(rx.frame) :
        \E n \in 1..Len(rx.frame[b].recs) : rx.frame[b].recs[n].tag \in DOMAIN pending

\* C36 (as claimed): when handle() has walked a verb block of a frame and a
\* later verb block holds a reply that a slot is waiting for, handle() goes
\* on with the next block, whether or not the list of the block it leaves
\* could be stored.
C36_PerVerbIsolation ==
    [][(rx.phase = "end" /\ rx' # rx /\ WaiterInLaterBlock)
         => (rx'.phase = "rec" /\ rx'.b = rx.b + 1)]_vars

\* handle() is at the statement that stores the collected list, and the
\* statement raises: curr_tag was never assigned, or it has no slot
StoreFails ==
    /\ rx.phase = "end"
    /\ rx' # rx
    /\ (rx.curr_tag = Unbound \/ rx.curr_tag \notin DOMAIN pending)

\* C37: when the reply section of a frame fails, handle() goes on to the
\* frame's event records, beginning with the first; it looks at every one of
\* them, and puts each whose tag is registered with handlers on the queue.
C37_EventsAfterReplyFailure ==
    [][/\ (StoreFails /\ rx.evs # <<>>)
            => (rx'.phase = "event" /\ rx'.evs = rx.evs /\ rx'.i = 1)
       /\ (rx.phase = "event" /\ rx' # rx)
            => /\ (rx.i < Len(rx.evs)) => (rx'.phase = "event" /\ rx'.i = rx.i + 1
                                             /\ rx'.evs = rx.evs)
               /\ (rx.evs[rx.i].tag \in DOMAIN registry /\ lst[rx.evs[rx.i].tag] # <<>>)
                     => evq' = Append(evq, [sub |-> rx.evs[rx.i].tag, ev |-> rx.evs[rx.i]])]_vars

\* an event is on the queue that came in a frame whose reply record, tagged
\* t1, found no slot: no operation was started that could have reserved one
C37_Witness ==
    /\ nOps = 1
    /\ evq # <<>>
    /\ pureLog[evq[1].ev.fr] = <<"t1", 1>>

\* the list is one or more replies to an unsubscribe command
UnsubscribeReply(res) ==
    res # <<>> /\ \A n \in 1..Len(res) : res[n].cls = "unsubscribe"

\* C38 (as claimed): an unsubscribe() that ends with the take's timeout or
\* with the I/O failure of the send leaves the registry as it is; and a key
\* leaves the registry only in an unsubscribe() whose take has returned an
\* unsubscribe reply.
C38_FailedUnsubscribeKeeps ==
    [][/\ \A c \in Callers :
            (call[c].op = "unsubscribe" /\ call[c].pc # "raised"
                /\ call'[c].pc = "raised" /\ call'[c].err \in {"Timeout", "IOError"})
            => registry' = registry
       /\ (DOMAIN registry \ DOMAIN registry' # {})
            => \E c \in Callers :
                  /\ call[c].op = "unsubscribe"
                  /\ call[c].pc = "post"
                  /\ call'[c].pc = "done"
                  /\ UnsubscribeReply(call[c].res)]_vars

\* the event records the server can send under SpecEv for a subscription
\* (an event with the foreign tag is never put on the queue)
EventRecs ==
    {[tag |-> t, fr |-> f, i |-> n] :
        t \in EventTags \ {ForeignTag}, f \in 1..EvMaxFrames, n \in 1..EvMaxEvents}

\* the pair of event e waits on the queue
Queued(e) == \E k \in 1..Len(evq) : evq[k].ev = e

\* the dispatcher has taken the pair of event e and is calling the handlers
InWork(e) == disp.pc = "fire" /\ disp.ev = e

\* the dispatcher has called every handler that was attached when it took
\* the pair of event e
FiredAll(e) == InWork(e) /\ disp.k > Len(disp.hs)

\* C39: dispatch liveness.  A pair on the event queue is taken by the
\* dispatcher unless the dispatcher is told to stop, and once a pair is
\* taken every handler attached to its subscription at that moment is called.
C39_DispatchLiveness ==
    \A e \in EventRecs :
        /\ Queued(e) ~> (InWork(e) \/ ~disp.keep)
        /\ InWork(e) ~> FiredAll(e)

\* the handlers of one event have all been called while the connection is
\* open and another pair waits on the queue
C39_Witness ==
    /\ conn = "open"
    /\ disp.keep
    /\ disp.pc = "fire"
    /\ disp.hs # <<>>
    /\ disp.k > Len(disp.hs)
    /\ evq # <<>>

\* C40 (as claimed): whenever a caller's _send_message calls the transport's
\* send, the ready-to-send signal is set and the connection is open.
C40_SendOnlyWhileOpen ==
    [][\A c \in Callers :
          (call[c].pc = "xmit" /\ call'[c].pc # "xmit") => (ready /\ conn = "open")]_vars

====
